---- MODULE Spec2Model ----
(***************************************************************************)
(* Model of the soil-health dashboard's upload route                      *)
(* (src/app/api/analyze/route.ts): the POST handler, runPythonModel,       *)
(* parseCSV and extractModelMetrics.                                       *)
(*                                                                         *)
(* Text is a sequence of lexemes.  A lexeme is a keyword of one of the     *)
(* route's regular expressions ("Target:", "R2:", ...), a single digit,    *)
(* ".", ",", a blank " ", a newline "\n", or a word.  No lexeme other than *)
(* " " and "\n" starts or ends with white space, so trim() is exact.       *)
(* Numbers are exact decimals m / 10^e.                                    *)
(***************************************************************************)
EXTENDS Integers, Sequences, FiniteSets, TLC

NL == "\n"
SP == " "

DigitTokens == <<"0", "1", "2", "3", "4", "5", "6", "7", "8", "9">>

IsDigit(t) == \E i \in 1..10 : DigitTokens[i] = t

DigitVal(t) == (CHOOSE i \in 1..10 : DigitTokens[i] = t) - 1

\* [\d.]
IsNumChar(t) == IsDigit(t) \/ t = "."

\* \s
IsSpace(t) == t = SP \/ t = NL

(***************************************************************************)
(* String primitives of JavaScript, on lexeme sequences.                   *)
(***************************************************************************)
Drop(s, n) == SubSeq(s, n + 1, Len(s))

Take(s, n) == SubSeq(s, 1, n)

\* s.startsWith(p) at position i (1-based)
MatchAt(s, i, p) ==
    /\ i + Len(p) - 1 <= Len(s)
    /\ \A k \in 1..Len(p) : s[i + k - 1] = p[k]

\* s.indexOf(p, from): the first position >= from where p occurs, 0 if none
IndexFrom(s, p, from) ==
    LET hits == {i \in from..Len(s) : MatchAt(s, i, p)}
    IN  IF hits = {} THEN 0 ELSE CHOOSE i \in hits : \A j \in hits : i <= j

RECURSIVE TrimStart(_)
TrimStart(s) ==
    IF s # <<>> /\ IsSpace(Head(s)) THEN TrimStart(Tail(s)) ELSE s

RECURSIVE TrimEnd(_)
TrimEnd(s) ==
    IF s # <<>> /\ IsSpace(s[Len(s)]) THEN TrimEnd(Take(s, Len(s) - 1)) ELSE s

\* String.prototype.trim
Trim(s) == TrimEnd(TrimStart(s))

\* s.split(sep) for a non-empty separator: the pieces between the
\* non-overlapping occurrences of sep, left to right
\* a split that gives no piece for the empty string
RECURSIVE SplitNonEmpty(_, _)
SplitNonEmpty(s, sep) ==
    IF s = <<>> THEN <<>>
    ELSE LET i == IndexFrom(s, sep, 1)
         IN  IF i = 0 THEN <<s>>
             ELSE <<Take(s, i - 1)>> \o SplitNonEmpty(Drop(s, i + Len(sep) - 1), sep)

RECURSIVE Split(_, _)
Split(s, sep) ==
    LET i == IndexFrom(s, sep, 1)
    IN  IF i = 0 THEN <<s>>
        ELSE <<Take(s, i - 1)>> \o Split(Drop(s, i + Len(sep) - 1), sep)

\* s.replace(w, ""): the first occurrence of the lexeme w removed
ReplaceFirst(s, w) ==
    LET i == IndexFrom(s, <<w>>, 1)
    IN  IF i = 0 THEN s ELSE Take(s, i - 1) \o Drop(s, i)

\* the longest prefix of s whose lexemes all satisfy the class
RECURSIVE DigitRun(_)
DigitRun(s) ==
    IF s # <<>> /\ IsDigit(Head(s)) THEN <<Head(s)>> \o DigitRun(Tail(s)) ELSE <<>>

RECURSIVE NumCharRun(_)
NumCharRun(s) ==
    IF s # <<>> /\ IsNumChar(Head(s)) THEN <<Head(s)>> \o NumCharRun(Tail(s)) ELSE <<>>

\* the rest of the line: (.*?) before \n or the end
RECURSIVE LineRun(_)
LineRun(s) ==
    IF s # <<>> /\ Head(s) # NL THEN <<Head(s)>> \o LineRun(Tail(s)) ELSE <<>>

(***************************************************************************)
(* Numbers: exact decimals m / 10^e, and NaN.                              *)
(***************************************************************************)
NaN == [nan |-> TRUE, m |-> 0, e |-> 0]

RECURSIVE Norm(_, _)
Norm(m, e) ==
    IF e > 0 /\ m % 10 = 0 THEN Norm(m \div 10, e - 1)
    ELSE [nan |-> FALSE, m |-> m, e |-> e]

RECURSIVE DigitsValue(_)
DigitsValue(ds) ==
    IF ds = <<>> THEN 0
    ELSE 10 * DigitsValue(Take(ds, Len(ds) - 1)) + DigitVal(ds[Len(ds)])

\* Number.parseFloat on text of digits and dots: the longest prefix
\* digits [. digits] with at least one digit, NaN if there is none
ParseFloat(s) ==
    LET ip == DigitRun(s)
        rest == Drop(s, Len(ip))
        fp == IF rest # <<>> /\ Head(rest) = "." THEN DigitRun(Tail(rest)) ELSE <<>>
    IN  IF ip = <<>> /\ fp = <<>> THEN NaN
        ELSE Norm(DigitsValue(ip \o fp), Len(fp))

\* Math.pow(x, 2)
Pow2(x) == IF x.nan THEN NaN ELSE Norm(x.m * x.m, x.e + x.e)

\* x * y
Times(x, y) == IF x.nan \/ y.nan THEN NaN ELSE Norm(x.m * y.m, x.e + y.e)

\* ToBoolean of a number: 0 and NaN are falsy
Truthy(x) == ~x.nan /\ x.m # 0

(***************************************************************************)
(* Number.parseInt on \d+ and the Array(n) constructor.  The integer is    *)
(* kept as its digits without leading zeros, since it is unbounded.        *)
(***************************************************************************)
RECURSIVE StripZeros(_)
StripZeros(ds) ==
    IF Len(ds) > 1 /\ Head(ds) = "0" THEN StripZeros(Tail(ds)) ELSE ds

ParseInt(ds) == StripZeros(ds)

\* 2^32 - 1, the largest array length
MaxArrayLength == <<"4", "2", "9", "4", "9", "6", "7", "2", "9", "5">>

\* a <= b for digit strings without leading zeros
RECURSIVE DigitsLeq(_, _)
DigitsLeq(a, b) ==
    IF Len(a) # Len(b) THEN Len(a) < Len(b)
    ELSE IF a = <<>> THEN TRUE
    ELSE IF Head(a) # Head(b) THEN DigitVal(Head(a)) < DigitVal(Head(b))
    ELSE DigitsLeq(Tail(a), Tail(b))

\* Array(n) throws RangeError unless 0 <= n <= 2^32 - 1
ArrayLengthOk(n) == DigitsLeq(n, MaxArrayLength)

\* Array(n).fill(0).map((_, i) => `Feature ${i + 1}`)
FeatureNames(n) == [i \in 1..DigitsValue(n) |-> <<"Feature", i>>]

(***************************************************************************)
(* Mappings (JavaScript objects used as dictionaries).                     *)
(***************************************************************************)
EmptyMap == [k \in {} |-> 0]

Put(map, k, v) == [x \in (DOMAIN map) \cup {k} |-> IF x = k THEN v ELSE map[x]]

Has(map, k) == k \in DOMAIN map

(***************************************************************************)
(* extractModelMetrics                                                     *)
(***************************************************************************)
FinalSummaryMarker == <<"=== Final Summary ===">>

GeneratingMarker == <<NL, NL, "Generating predictions">>

TargetSeparator == <<NL, "Target:">>

EmptyMetrics ==
    [r2Scores |-> EmptyMap, rmseScores |-> EmptyMap, mseScores |-> EmptyMap,
     bestModels |-> EmptyMap, bestFeatures |-> EmptyMap]

\* the match without its lookahead: the section runs to the end of the text
FinalSummaryMatchToEnd(output) ==
    LET i == IndexFrom(output, FinalSummaryMarker, 1)
    IN  IF i = 0 THEN [matched |-> FALSE, text |-> <<>>]
        ELSE [matched |-> TRUE, text |-> Drop(output, i)]

\* output.match(/=== Final Summary ===([\s\S]*?)(?=\n\nGenerating predictions|$)/):
\* the text after the first marker, up to the first "\n\nGenerating predictions"
\* after it or to the end
FinalSummaryMatch(output) ==
    LET i == IndexFrom(output, FinalSummaryMarker, 1)
        rest == Drop(output, i)
        g == IndexFrom(rest, GeneratingMarker, 1)
    IN  IF i = 0 THEN [matched |-> FALSE, text |-> <<>>]
        ELSE [matched |-> TRUE, text |-> IF g = 0 THEN rest ELSE Take(rest, g - 1)]

\* block.match(/<key> ([\d.]+)/): the first place where the key, a blank and
\* at least one digit or dot follow one another; the run of digits and dots
NumberMatch(block, key) ==
    LET hits == {p \in 1..Len(block) :
                    /\ MatchAt(block, p, <<key, SP>>)
                    /\ p + 2 <= Len(block)
                    /\ IsNumChar(block[p + 2])}
        p0 == CHOOSE p \in hits : \A q \in hits : p <= q
    IN  IF hits = {} THEN [matched |-> FALSE, text |-> <<>>]
        ELSE [matched |-> TRUE, text |-> NumCharRun(Drop(block, p0 + 1))]

\* the mse step: if (metrics.rmseScores[target]) mse = Math.pow(rmse, 2)
MseStep(metrics, target) ==
    IF Has(metrics.rmseScores, target) /\ Truthy(metrics.rmseScores[target])
    THEN [metrics EXCEPT !.mseScores = Put(@, target, Pow2(metrics.rmseScores[target]))]
    ELSE metrics

\* the body of targetBlocks.slice(1).forEach, recording a target only when
\* all of its three lines are there
ProcessBlockAllOrNothing(metrics, block) ==
    LET nl == IndexFrom(block, <<NL>>, 1)
        target == Trim(Take(block, nl - 1))
        mp == IndexFrom(block, <<"Best model:", SP>>, 1)
        r2 == NumberMatch(block, "R2:")
        rmse == NumberMatch(block, "RMSE:")
    IN  IF nl = 0 \/ mp = 0 \/ ~r2.matched \/ ~rmse.matched THEN metrics
        ELSE MseStep(
                [metrics EXCEPT
                    !.bestModels =
                        Put(@, target,
                            Trim(ReplaceFirst(LineRun(Drop(block, mp + 1)), "Regressor"))),
                    !.r2Scores = Put(@, target, ParseFloat(r2.text)),
                    !.rmseScores = Put(@, target, ParseFloat(rmse.text))],
                target)

\* the body of targetBlocks.slice(1).forEach
ProcessBlock(metrics, block) ==
    LET nl == IndexFrom(block, <<NL>>, 1)
        target == Trim(Take(block, nl - 1))
        mp == IndexFrom(block, <<"Best model:", SP>>, 1)
        r2 == NumberMatch(block, "R2:")
        rmse == NumberMatch(block, "RMSE:")
        m1 == IF mp = 0 THEN metrics
              ELSE [metrics EXCEPT !.bestModels =
                       Put(@, target,
                           Trim(ReplaceFirst(LineRun(Drop(block, mp + 1)), "Regressor")))]
        m2 == IF r2.matched
              THEN [m1 EXCEPT !.r2Scores = Put(@, target, ParseFloat(r2.text))]
              ELSE m1
        m3 == IF rmse.matched
              THEN [m2 EXCEPT !.rmseScores = Put(@, target, ParseFloat(rmse.text))]
              ELSE m2
    IN  IF nl = 0 THEN metrics ELSE MseStep(m3, target)

RECURSIVE ProcessBlocks(_, _)
ProcessBlocks(metrics, blocks) ==
    IF blocks = <<>> THEN metrics
    ELSE ProcessBlocks(ProcessBlock(metrics, Head(blocks)), Tail(blocks))

\* /Selected (\d+) features for (.*?)\n/ tried at position p
FeatureMatchAt(output, p) ==
    LET ds == DigitRun(Drop(output, p + 1))
        q == p + 2 + Len(ds)
        name == LineRun(Drop(output, q + 2))
        end == q + 3 + Len(name)
    IN  [matched |-> /\ MatchAt(output, p, <<"Selected", SP>>)
                     /\ ds # <<>>
                     /\ MatchAt(output, q, <<SP, "features for", SP>>)
                     /\ end <= Len(output)
                     /\ output[end] = NL,
         count |-> ds, name |-> name, next |-> end + 1]

\* may Array(n) be built
FeatureCountOk(n) == ArrayLengthOk(n)

\* the for loop over output.matchAll(...): the matches left to right, none
\* overlapping; a RangeError of Array(n) ends the loop
RECURSIVE ScanFeatures(_, _, _)
ScanFeatures(output, from, acc) ==
    LET hits == {p \in from..Len(output) : FeatureMatchAt(output, p).matched}
        p0 == CHOOSE p \in hits : \A q \in hits : p <= q
        mt == FeatureMatchAt(output, p0)
        n == ParseInt(mt.count)
    IN  IF hits = {} THEN acc
        ELSE IF ~FeatureCountOk(n) THEN [acc EXCEPT !.threw = TRUE]
        ELSE ScanFeatures(output, mt.next,
                 [acc EXCEPT !.bestFeatures = Put(@, Trim(mt.name), FeatureNames(n))])

\* extractModelMetrics(output): the metrics, or threw = TRUE with no metrics
extractModelMetrics(output) ==
    LET fs == FinalSummaryMatch(output)
        blocks == Split(fs.text, TargetSeparator)
        summary == IF fs.matched THEN ProcessBlocks(EmptyMetrics, Tail(blocks))
                   ELSE EmptyMetrics
        scanned == ScanFeatures(output, 1,
                      [threw |-> FALSE, bestFeatures |-> EmptyMap])
    IN  IF scanned.threw
        THEN [threw |-> TRUE] @@ EmptyMetrics
        ELSE [threw |-> FALSE] @@ [summary EXCEPT !.bestFeatures = scanned.bestFeatures]


(***************************************************************************)
(* parseCSV                                                                *)
(***************************************************************************)
COMMA == ","

Zero == [nan |-> FALSE, m |-> 0, e |-> 0]

\* an unsigned decimal literal: digits [. [digits]] or . digits, and nothing else
UnsignedDecimal(s) ==
    LET ip == DigitRun(s)
        rest == Drop(s, Len(ip))
        dot == rest # <<>> /\ Head(rest) = "."
        fp == IF dot THEN DigitRun(Tail(rest)) ELSE <<>>
        used == Len(ip) + (IF dot THEN 1 + Len(fp) ELSE 0)
    IN  IF used = Len(s) /\ (ip # <<>> \/ fp # <<>>)
        THEN Norm(DigitsValue(ip \o fp), Len(fp))
        ELSE NaN

Negate(x) == IF x.nan THEN NaN ELSE [x EXCEPT !.m = 0 - x.m]

\* Number(value) for a string: white space is stripped, the empty string is 0,
\* a signed decimal literal is its value, anything else is NaN
ToNumber(s) ==
    LET t == Trim(s)
    IN  IF t = <<>> THEN Zero
        ELSE IF Head(t) = "-" THEN Negate(UnsignedDecimal(Tail(t)))
        ELSE IF Head(t) = "+" THEN UnsignedDecimal(Tail(t))
        ELSE UnsignedDecimal(t)

\* the values a cell of a row can hold
NumberValue(x) == [t |-> "number", n |-> x, s |-> <<>>]

StringValue(s) == [t |-> "string", n |-> NaN, s |-> s]

Undefined == [t |-> "undefined", n |-> NaN, s |-> <<>>]

\* isNaN(Number(value)) ? value : Number(value); Number(undefined) is NaN
Coerce(values, index) ==
    IF index > Len(values) THEN Undefined
    ELSE IF ToNumber(values[index]).nan THEN StringValue(values[index])
    ELSE NumberValue(ToNumber(values[index]))

\* headers.forEach((header, index) => row[header] = ...): a later column
\* of the same name overwrites an earlier one
RECURSIVE BuildRow(_, _, _, _)
BuildRow(headers, values, index, row) ==
    IF index > Len(headers) THEN row
    ELSE BuildRow(headers, values, index + 1,
                  Put(row, headers[index], Coerce(values, index)))

\* parseCSV with lines.map in place of lines.slice(1).map
parseCSVKeepsHeader(csvData) ==
    LET lines == Split(Trim(csvData), <<NL>>)
        headers == Split(lines[1], <<COMMA>>)
    IN  [i \in 1..Len(lines) |->
            BuildRow(headers, Split(lines[i], <<COMMA>>), 1, EmptyMap)]

\* lines[0].split(",") is a TypeError when lines has no element
parseCSVThrows(csvData) == Split(Trim(csvData), <<NL>>) = <<>>

parseCSV(csvData) ==
    LET lines == Split(Trim(csvData), <<NL>>)
        headers == Split(lines[1], <<COMMA>>)
    IN  [i \in 1..(Len(lines) - 1) |->
            BuildRow(headers, Split(lines[i + 1], <<COMMA>>), 1, EmptyMap)]


(***************************************************************************)
(* The upload route: POST and runPythonModel, one instance per request.    *)
(* A step is what runs between two awaits.  mkdir, request.formData() and  *)
(* writeFile are taken to succeed, and a file is read or written as a      *)
(* whole.  model.py is not part of the route: it may read the upload,      *)
(* print, write the predictions file and exit with any code, in any order  *)
(* that reads before it writes.                                            *)
(***************************************************************************)
\* the requests in flight; each carries its own file, or none
Req == {"A", "B"}

\* the most 'data' events (stdout and stderr together) of one process
MaxChunks == 2

\* the uploaded CSV of each request
UploadOf(r) ==
    IF r = "A" THEN <<"Soil_ID", NL, "S1">> ELSE <<"Soil_ID", NL, "S2">>

\* what a run of model.py can print in one stdout chunk; a chunk may end in
\* the middle of a line
StdoutChunks ==
    { <<"=== Final Summary ===", NL, "Target:", SP, "Ph", NL,
        "RMSE:", SP, "0", ".", "5", NL>>,
      <<"Selected", SP, "4", "2", "9", "4", "9", "6", "7", "2", "9", "6", SP,
        "features for", SP, "Ph">> }

\* and in one stderr chunk
StderrChunks == { <<"Traceback", NL>> }

\* exit codes of a process that ran, and the code 'close' reports after a
\* failed spawn (a negative errno)
ExitCodes == {0, 1}

SpawnErrorCode == 0 - 2

CodeText(code) ==
    CASE code = 0 -> "0"
      [] code = 1 -> "1"
      [] OTHER -> "-2"

\* the columns model.py adds to the header, and the values to a line
PredictedColumns ==
    <<COMMA, "Ph", COMMA, "Moist", COMMA, "EC (u/10 gram)", COMMA, "Nitro (mg/10 g)",
      COMMA, "Posh Nitro (mg/10 g)", COMMA, "Pota Nitro (mg/10 g)">>

PredictedValues ==
    <<COMMA, "6", ".", "5", COMMA, "3", "5", COMMA, "8", "0", "0", COMMA, "1", "8",
      COMMA, "1", "2", COMMA, "2", "5">>

\* model.py: the predictions file it writes for the upload it read: one line
\* per line of the upload, the six target columns added
ModelPredict(csv) ==
    LET lines == Split(Trim(csv), <<NL>>)
        Out[i \in 0..Len(lines)] ==
            IF i = 0 THEN <<>>
            ELSE Out[i - 1] \o (IF i = 1 THEN <<>> ELSE <<NL>>) \o lines[i]
                 \o (IF i = 1 THEN PredictedColumns ELSE PredictedValues)
    IN  Out[Len(lines)]

VARIABLES
    pc,          \* where each request's POST stands
    hasFile,     \* whether the request's form data holds a file
    dirs,        \* which of UPLOAD_DIR and OUTPUT_DIR exist
    fs,          \* the files uploads/soildata.csv and soil_predictions.csv
    proc,        \* the state of the process each request spawned
    procIn,      \* the upload that process has read, while it runs
    procWrote,   \* whether that process has written the predictions file
    outputData,  \* runPythonModel's stdout buffer
    errorData,   \* runPythonModel's stderr buffer
    promise,     \* the promise runPythonModel returned
    modelOutput, \* POST's modelOutput
    predictionsData, \* POST's predictionsData: what readFile returned
    response,    \* the response POST returned
    trace,       \* history: the steps and events of each request, in order
    stdoutLog,   \* history: the stdout chunks of each process, in arrival order
    stderrLog,   \* history: the stderr chunks of each process, in arrival order
    closeInfo,   \* history: the 'close' event's code and the stderr text then
    resultRead,  \* history: the predictions file's content when POST read it
    mInput,      \* the extractor's input (metrics specification)
    mResult,     \* the extractor's result (metrics specification)
    rendered,    \* what rendering ModelMetrics with that result did
    csvInput,    \* the CSV text given to parseCSV (CSV specification)
    csvParsed,   \* the rows parseCSV returned
    csvExported, \* the text exportToCsv made of those rows
    upFile,      \* the text of the file given to uploadSoilData (upload specification)
    upResult,    \* what uploadSoilData returned, and the random numbers it drew
    spectralData, \* the mapping given to predictSingleSample (predictor specification)
    predicted,   \* what predictSingleSample returned, and the random numbers it drew
    home,        \* the state of the dashboard page Home (page specification)
    pending,     \* the calls the page awaits
    pageLog,     \* history: the page's last step, and its state when the upload began
    tableSamples, \* SoilSampleTable: the samples prop (table specification)
    searchTerm,  \* SoilSampleTable: the search term
    currentPage, \* SoilSampleTable: the current page
    mounted,     \* LineChart and BarChart: where the component's life stands
    chartRef,    \* chartRef.current of each component: a chart's number, or 0
    charts,      \* the charts created on the canvas of each component, in order
    formData,    \* SpectralDataForm: the fields edited so far (form specification)
    submitted,   \* history: the mappings the form gave to onSubmit, in order
    gen,         \* the metrics given to generateModelOutputText, and its text
    gauge        \* SoilHealthGauge: the health score it computed

vars ==
    <<pc, hasFile, dirs, fs, proc, procIn, procWrote, outputData, errorData,
      promise, modelOutput, predictionsData, response, trace, stdoutLog, stderrLog,
      closeInfo,
      resultRead, mInput, mResult, rendered, csvInput, csvParsed, csvExported,
      upFile, upResult, spectralData, predicted, home, pending, pageLog,
      tableSamples, searchTerm, currentPage, mounted, chartRef, charts, formData,
      submitted, gen, gauge>>

metricsVars == <<mInput, mResult, rendered>>

csvVars == <<csvInput, csvParsed, csvExported>>

upVars == <<upFile, upResult>>

predictVars == <<spectralData, predicted>>

pageVars == <<home, pending, pageLog>>

tableVars == <<tableSamples, searchTerm, currentPage>>

chartVars == <<mounted, chartRef, charts>>

formVars == <<formData, submitted>>

\* the state of the components of the page
viewVars == <<tableVars, chartVars, formVars, gen, gauge>>

\* the state of everything but the upload route
libVars == <<metricsVars, csvVars, upVars, predictVars, pageVars, viewVars>>

Missing == [exists |-> FALSE, data |-> <<>>]

File(data) == [exists |-> TRUE, data |-> data]

Pending == [state |-> "pending", value |-> <<>>, reason |-> <<>>]

\* resolve and reject settle a pending promise and do nothing to a settled one
Resolve(p, value) ==
    IF p.state = "pending" THEN [state |-> "resolved", value |-> value, reason |-> <<>>]
    ELSE p

Reject(p, reason) ==
    IF p.state = "pending" THEN [state |-> "rejected", value |-> <<>>, reason |-> reason]
    ELSE p

\* `Python process failed with code ${code}: ${errorData}`
ProcessFailureMessage(code, stderr) ==
    <<"Python process failed with code", SP, CodeText(code), ":", SP>> \o stderr

\* `Failed to start Python process: ${error.message}`
SpawnFailureMessage == <<"Failed to start Python process:", SP, "spawn python ENOENT">>

NoFileError == <<"No file provided">>

InternalError == <<"Internal server error">>

ReadError == <<"Failed to read model predictions">>

NoMetrics == [threw |-> FALSE] @@ EmptyMetrics

NoResponse ==
    [sent |-> FALSE, status |-> 0, success |-> FALSE, error |-> <<>>,
     hasModelOutput |-> FALSE, modelOutput |-> <<>>,
     predictions |-> <<>>, metrics |-> NoMetrics]

\* NextResponse.json({ error }, { status })
ErrorResponse(error, status) ==
    [NoResponse EXCEPT !.sent = TRUE, !.status = status, !.error = error]

\* NextResponse.json({ error: "Failed to read model predictions", modelOutput }, 500)
ReadFailureResponse(output) ==
    [ErrorResponse(ReadError, 500) EXCEPT !.hasModelOutput = TRUE, !.modelOutput = output]

\* NextResponse.json({ success: true, predictions, metrics, modelOutput })
SuccessResponse(preds, metrics, output) ==
    [sent |-> TRUE, status |-> 200, success |-> TRUE, error |-> <<>>,
     hasModelOutput |-> TRUE, modelOutput |-> output,
     predictions |-> preds, metrics |-> metrics]

Log(r, event) == trace' = [trace EXCEPT ![r] = Append(@, event)]

NotRun == [ran |-> FALSE] @@ NoMetrics

NotRendered == [done |-> FALSE, threw |-> FALSE, failing |-> {}]

InitRoute ==
    /\ pc = [r \in Req |-> "idle"]
    /\ hasFile = [r \in Req |-> FALSE]
    /\ dirs = [upload |-> FALSE, output |-> FALSE]
    /\ fs = [upload |-> Missing, result |-> Missing]
    /\ proc = [r \in Req |-> "none"]
    /\ procIn = [r \in Req |-> Missing]
    /\ procWrote = [r \in Req |-> FALSE]
    /\ outputData = [r \in Req |-> <<>>]
    /\ errorData = [r \in Req |-> <<>>]
    /\ promise = [r \in Req |-> Pending]
    /\ modelOutput = [r \in Req |-> <<>>]
    /\ predictionsData = [r \in Req |-> Missing]
    /\ response = [r \in Req |-> NoResponse]
    /\ trace = [r \in Req |-> <<>>]
    /\ stdoutLog = [r \in Req |-> <<>>]
    /\ stderrLog = [r \in Req |-> <<>>]
    /\ closeInfo = [r \in Req |-> [fired |-> FALSE, code |-> 0, stderr |-> <<>>]]
    /\ resultRead = [r \in Req |-> Missing]

\* nothing is given to the extractor
IdleMetrics ==
    /\ mInput = <<>>
    /\ mResult = NotRun
    /\ rendered = NotRendered

NotParsed == [ran |-> FALSE, threw |-> FALSE, rows |-> <<>>, keys |-> <<>>]

NotExported == [done |-> FALSE, text |-> <<>>]

\* nothing is given to parseCSV
IdleCsv ==
    /\ csvInput = <<>>
    /\ csvParsed = NotParsed
    /\ csvExported = NotExported

NotUploaded == [ran |-> FALSE, failed |-> FALSE, data |-> <<>>, predictions |-> <<>>,
                draws |-> <<>>]

\* nothing is given to uploadSoilData
IdleUpload ==
    /\ upFile = <<>>
    /\ upResult = NotUploaded

EmptyMapping == [names |-> <<>>, at |-> [k \in {} |-> 0]]

NotPredicted == [ran |-> FALSE, qualityScore |-> [n |-> 0, d |-> 1], draws |-> <<>>,
                 record |-> [k \in {} |-> 0]]

\* nothing is given to predictSingleSample
IdlePredict ==
    /\ spectralData = EmptyMapping
    /\ predicted = NotPredicted

\* null, and a value that is not null
Null == [null |-> TRUE, value |-> <<>>]

Some(v) == [null |-> FALSE, value |-> v]

\* the useState values of Home
HomeInitial ==
    [activeTab |-> "upload", isLoading |-> FALSE, file |-> Null,
     analysisComplete |-> FALSE, soilData |-> Null, singlePrediction |-> Null,
     modelOutput |-> <<>>, showModelOutput |-> FALSE, error |-> Null]

\* the calls the page awaits, in the order they were made: none
NothingPending == <<>>

\* uploadSoilData(file) and predictSingleSample(spectralData), awaited
UploadCall(file) == [call |-> "uploadSoilData", file |-> file, data |-> EmptyMapping]

PredictCall(data) == [call |-> "predictSingleSample", file |-> <<>>, data |-> data]

\* the calls left when the i-th has settled
Settle(calls, i) == SubSeq(calls, 1, i - 1) \o SubSeq(calls, i + 1, Len(calls))

\* what the page shows of an analysis
Shown(h) ==
    [soilData |-> h.soilData, modelOutput |-> h.modelOutput,
     analysisComplete |-> h.analysisComplete]

\* the page is not in use
IdlePage ==
    /\ home = HomeInitial
    /\ pending = NothingPending
    /\ pageLog = [step |-> "none", before |-> Shown(HomeInitial)]

\* the table has no samples
IdleTable ==
    /\ tableSamples = <<>>
    /\ searchTerm = <<>>
    /\ currentPage = 1

\* the two chart components
ChartKinds == {"line", "bar"}

\* no chart component is mounted
IdleCharts ==
    /\ mounted = [c \in ChartKinds |-> "no"]
    /\ chartRef = [c \in ChartKinds |-> 0]
    /\ charts = [c \in ChartKinds |-> <<>>]

\* no field of the form was edited
IdleForm ==
    /\ formData = EmptyMapping
    /\ submitted = <<>>

NotGenerated == [done |-> FALSE, metrics |-> EmptyMetrics, targets |-> <<>>]

NotDrawn == [done |-> FALSE, healthScore |-> [n |-> 0, d |-> 1]]

IdleViews ==
    /\ IdleTable
    /\ IdleCharts
    /\ IdleForm
    /\ gen = NotGenerated
    /\ gauge = NotDrawn

Init ==
    /\ InitRoute
    /\ IdleMetrics
    /\ IdleCsv
    /\ IdleUpload
    /\ IdlePredict
    /\ IdlePage
    /\ IdleViews


procVars == <<proc, procIn, procWrote, outputData, errorData, promise>>

historyVars == <<stdoutLog, stderrLog, closeInfo, resultRead>>

\* a request arrives; its form data holds a file or not
Receive(r, withFile) ==
    /\ pc[r] = "idle"
    /\ pc' = [pc EXCEPT ![r] = "ensureUploadDir"]
    /\ hasFile' = [hasFile EXCEPT ![r] = withFile]
    /\ UNCHANGED <<dirs, fs, procVars, modelOutput, predictionsData, response, trace,
                   historyVars, libVars>>

\* if (!existsSync(UPLOAD_DIR)) await mkdir(UPLOAD_DIR, { recursive: true })
EnsureUploadDir(r) ==
    /\ pc[r] = "ensureUploadDir"
    /\ dirs' = [dirs EXCEPT !.upload = TRUE]
    /\ pc' = [pc EXCEPT ![r] = "ensureOutputDir"]
    /\ Log(r, "ensureUploadDir")
    /\ UNCHANGED <<hasFile, fs, procVars, modelOutput, predictionsData, response,
                   historyVars, libVars>>

\* if (!existsSync(OUTPUT_DIR)) await mkdir(OUTPUT_DIR, { recursive: true })
EnsureOutputDir(r) ==
    /\ pc[r] = "ensureOutputDir"
    /\ dirs' = [dirs EXCEPT !.output = TRUE]
    /\ pc' = [pc EXCEPT ![r] = "formData"]
    /\ Log(r, "ensureOutputDir")
    /\ UNCHANGED <<hasFile, fs, procVars, modelOutput, predictionsData, response,
                   historyVars, libVars>>

\* if (!file) return NextResponse.json({ error: "No file provided" }, { status: 400 })
NoFileContinues(r) ==
    /\ pc' = [pc EXCEPT ![r] = "writeFile"]
    /\ response' = [response EXCEPT ![r] = ErrorResponse(NoFileError, 400)]
    /\ Log(r, "respond")

NoFile(r) ==
    /\ pc' = [pc EXCEPT ![r] = "done"]
    /\ response' = [response EXCEPT ![r] = ErrorResponse(NoFileError, 400)]
    /\ Log(r, "respond")

\* const formData = await request.formData(); const file = formData.get("file")
GetFormData(r) ==
    /\ pc[r] = "formData"
    /\ IF hasFile[r]
       THEN /\ pc' = [pc EXCEPT ![r] = "writeFile"]
            /\ UNCHANGED <<response, trace>>
       ELSE NoFile(r)
    /\ UNCHANGED <<hasFile, dirs, fs, procVars, modelOutput, predictionsData,
                   historyVars, libVars>>

\* the catch of POST: the error is logged and a 500 without detail returned
CatchAll(r, events) ==
    /\ pc' = [pc EXCEPT ![r] = "done"]
    /\ response' = [response EXCEPT ![r] = ErrorResponse(InternalError, 500)]
    /\ trace' = [trace EXCEPT ![r] = @ \o events \o <<"respond">>]

\* await writeFile(join(UPLOAD_DIR, "soildata.csv"), buffer), with a lock
\* on the shared paths held from here to the response
WriteUploadExclusive(r) ==
    /\ pc[r] = "writeFile"
    /\ \A o \in Req \ {r} : pc[o] \notin {"runModel", "awaitModel", "readFile", "extract"}
    /\ dirs.upload
    /\ fs' = [fs EXCEPT !.upload = File(UploadOf(r))]
    /\ pc' = [pc EXCEPT ![r] = "runModel"]
    /\ Log(r, "write")
    /\ UNCHANGED <<response, hasFile, dirs, procVars, modelOutput, predictionsData,
                   historyVars, libVars>>

\* await writeFile(join(UPLOAD_DIR, "soildata.csv"), buffer): the one fixed
\* path for every request; writing into a missing directory throws
WriteUpload(r) ==
    /\ pc[r] = "writeFile"
    /\ IF dirs.upload
       THEN /\ fs' = [fs EXCEPT !.upload = File(UploadOf(r))]
            /\ pc' = [pc EXCEPT ![r] = "runModel"]
            /\ Log(r, "write")
            /\ UNCHANGED response
       ELSE /\ CatchAll(r, <<>>)
            /\ UNCHANGED fs
    /\ UNCHANGED <<hasFile, dirs, procVars, modelOutput, predictionsData,
                   historyVars, libVars>>

\* runPythonModel up to its return: spawn("python", [scriptPath]), the empty
\* buffers, the four handlers. The process starts, or fails to start and
\* reports it later by 'error'
RunPythonModel(r) ==
    /\ pc[r] = "runModel"
    /\ \E started \in BOOLEAN :
          proc' = [proc EXCEPT ![r] = IF started THEN "running" ELSE "spawnFailed"]
    /\ outputData' = [outputData EXCEPT ![r] = <<>>]
    /\ errorData' = [errorData EXCEPT ![r] = <<>>]
    /\ promise' = [promise EXCEPT ![r] = Pending]
    /\ pc' = [pc EXCEPT ![r] = "awaitModel"]
    /\ Log(r, "spawn")
    /\ UNCHANGED <<hasFile, dirs, fs, procIn, procWrote, modelOutput, predictionsData,
                   response, historyVars, libVars>>

DataEvents(r) == Len(stdoutLog[r]) + Len(stderrLog[r])

\* outputData += data.toString()
AppendChunkReversed(buffer, chunk) == chunk \o buffer

AppendChunk(buffer, chunk) == buffer \o chunk

\* pythonProcess.stdout.on("data", ...)
OnStdout(r, chunk) ==
    /\ proc[r] = "running"
    /\ DataEvents(r) < MaxChunks
    /\ outputData' = [outputData EXCEPT ![r] = AppendChunk(@, chunk)]
    /\ stdoutLog' = [stdoutLog EXCEPT ![r] = Append(@, chunk)]
    /\ UNCHANGED <<pc, hasFile, dirs, fs, proc, procIn, procWrote, errorData, promise,
                   modelOutput, predictionsData, response, trace, stderrLog, closeInfo,
                   resultRead, libVars>>

\* pythonProcess.stderr.on("data", ...)
OnStderr(r, chunk) ==
    /\ proc[r] = "running"
    /\ DataEvents(r) < MaxChunks
    /\ errorData' = [errorData EXCEPT ![r] = AppendChunk(@, chunk)]
    /\ stderrLog' = [stderrLog EXCEPT ![r] = Append(@, chunk)]
    /\ UNCHANGED <<pc, hasFile, dirs, fs, proc, procIn, procWrote, outputData, promise,
                   modelOutput, predictionsData, response, trace, stdoutLog, closeInfo,
                   resultRead, libVars>>

\* the 'close' handler with the exit code test dropped
CloseAlwaysResolves(p, code, out, err) == Resolve(p, out)

\* the 'close' handler: if (code !== 0) reject(...) else resolve(outputData)
CloseSettles(p, code, out, err) ==
    IF code # 0 THEN Reject(p, ProcessFailureMessage(code, err)) ELSE Resolve(p, out)

\* pythonProcess.on("close", ...): a process that ran closes with its exit
\* code, one that failed to start with the spawn error's code; what the
\* process held in memory is gone
OnClose(r, code) ==
    /\ \/ proc[r] = "running" /\ code \in ExitCodes
       \/ proc[r] = "errored" /\ code = SpawnErrorCode
    /\ promise' = [promise EXCEPT ![r] = CloseSettles(@, code, outputData[r], errorData[r])]
    /\ proc' = [proc EXCEPT ![r] = "closed"]
    /\ procIn' = [procIn EXCEPT ![r] = Missing]
    /\ procWrote' = [procWrote EXCEPT ![r] = FALSE]
    /\ closeInfo' = [closeInfo EXCEPT ![r] =
                        [fired |-> TRUE, code |-> code, stderr |-> errorData[r]]]
    /\ Log(r, IF code = 0 THEN "close0" ELSE "closeN")
    /\ UNCHANGED <<pc, hasFile, dirs, fs, outputData, errorData,
                   modelOutput, predictionsData, response, stdoutLog, stderrLog,
                   resultRead, libVars>>

\* pythonProcess.on("error", ...): the process could not be spawned
OnError(r) ==
    /\ proc[r] = "spawnFailed"
    /\ promise' = [promise EXCEPT ![r] = Reject(@, SpawnFailureMessage)]
    /\ proc' = [proc EXCEPT ![r] = "errored"]
    /\ Log(r, "error")
    /\ UNCHANGED <<pc, hasFile, dirs, fs, procIn, procWrote, outputData, errorData,
                   modelOutput, predictionsData, response, historyVars, libVars>>

\* model.py reads uploads/soildata.csv, whatever it holds then
ProcReadUpload(r) ==
    /\ proc[r] = "running"
    /\ ~procIn[r].exists
    /\ fs.upload.exists
    /\ procIn' = [procIn EXCEPT ![r] = fs.upload]
    /\ UNCHANGED <<pc, hasFile, dirs, fs, proc, procWrote, outputData, errorData,
                   promise, modelOutput, predictionsData, response, trace, historyVars,
                   libVars>>

\* model.py writes soil_analysis_output/soil_predictions.csv
ProcWriteResult(r) ==
    /\ proc[r] = "running"
    /\ procIn[r].exists
    /\ ~procWrote[r]
    /\ dirs.output
    /\ fs' = [fs EXCEPT !.result = File(ModelPredict(procIn[r].data))]
    /\ procWrote' = [procWrote EXCEPT ![r] = TRUE]
    /\ UNCHANGED <<pc, hasFile, dirs, proc, procIn, outputData, errorData, promise,
                   modelOutput, predictionsData, response, trace, historyVars, libVars>>

\* may the await of runPythonModel() resume
AwaitReadyAlways(r) == TRUE

AwaitReady(r) == promise[r].state # "pending"

\* a rejected runPythonModel() starts the model again
RejectedRetries(r) ==
    /\ pc' = [pc EXCEPT ![r] = "runModel"]
    /\ UNCHANGED <<response, trace>>

\* a rejected runPythonModel() throws into the catch of POST
Rejected(r) == CatchAll(r, <<>>)

\* const modelOutput = await runPythonModel()
AwaitModel(r) ==
    /\ pc[r] = "awaitModel"
    /\ AwaitReady(r)
    /\ IF promise[r].state = "resolved"
       THEN /\ modelOutput' = [modelOutput EXCEPT ![r] = promise[r].value]
            /\ pc' = [pc EXCEPT ![r] = "readFile"]
            /\ UNCHANGED <<response, trace>>
       ELSE /\ Rejected(r)
            /\ UNCHANGED modelOutput
    /\ UNCHANGED <<hasFile, dirs, fs, procVars, predictionsData, historyVars, libVars>>

\* the catch around readFile
ReadFailureAsInternal(output) == ErrorResponse(InternalError, 500)

ReadFailure(output) == ReadFailureResponse(output)

\* predictionsData = await readFile(predictionsPath, "utf8") and, when it
\* fails, the catch around it
ReadPredictions(r) ==
    /\ pc[r] = "readFile"
    /\ predictionsData' = [predictionsData EXCEPT ![r] = fs.result]
    /\ resultRead' = [resultRead EXCEPT ![r] = fs.result]
    /\ IF fs.result.exists
       THEN /\ pc' = [pc EXCEPT ![r] = "extract"]
            /\ Log(r, "read")
            /\ UNCHANGED response
       ELSE /\ response' = [response EXCEPT ![r] = ReadFailure(modelOutput[r])]
            /\ pc' = [pc EXCEPT ![r] = "done"]
            /\ trace' = [trace EXCEPT ![r] = @ \o <<"readFail", "respond">>]
    /\ UNCHANGED <<hasFile, dirs, fs, procVars, modelOutput, stdoutLog, stderrLog,
                   closeInfo, libVars>>

\* what runs when readFile has returned: predictions = parseCSV(predictionsData),
\* metrics = extractModelMetrics(modelOutput) and the success response; an
\* exception of the extractor goes to the catch of POST
Respond(r) ==
    /\ pc[r] = "extract"
    /\ LET predictions == parseCSV(predictionsData[r].data)
           metrics == extractModelMetrics(modelOutput[r])
       IN  IF metrics.threw
           THEN CatchAll(r, <<"parse", "extract">>)
           ELSE /\ response' = [response EXCEPT ![r] =
                                   SuccessResponse(predictions, metrics, modelOutput[r])]
                /\ pc' = [pc EXCEPT ![r] = "done"]
                /\ trace' = [trace EXCEPT ![r] = @ \o <<"parse", "extract", "respond">>]
    /\ UNCHANGED <<hasFile, dirs, fs, procVars, modelOutput, predictionsData,
                   historyVars, libVars>>

\* the steps of POST for request r
RequestStep(r) ==
    \/ EnsureUploadDir(r)
    \/ EnsureOutputDir(r)
    \/ GetFormData(r)
    \/ WriteUpload(r)
    \/ RunPythonModel(r)
    \/ AwaitModel(r)
    \/ ReadPredictions(r)
    \/ Respond(r)

\* the steps of POST up to the read of the predictions file
FileStep(r) ==
    \/ EnsureUploadDir(r)
    \/ EnsureOutputDir(r)
    \/ GetFormData(r)
    \/ WriteUpload(r)
    \/ RunPythonModel(r)
    \/ ReadPredictions(r)

\* the events of the process of request r
ProcessStep(r) ==
    \/ \E chunk \in StdoutChunks : OnStdout(r, chunk)
    \/ \E chunk \in StderrChunks : OnStderr(r, chunk)
    \/ \E code \in ExitCodes \cup {SpawnErrorCode} : OnClose(r, code)
    \/ OnError(r)
    \/ ProcReadUpload(r)
    \/ ProcWriteResult(r)

Next ==
    \E r \in Req :
        \/ \E withFile \in BOOLEAN : Receive(r, withFile)
        \/ RequestStep(r)
        \/ ProcessStep(r)

Spec == Init /\ [][Next]_vars

(***************************************************************************)
(* The route with its requests handled strictly one after another: a       *)
(* request arrives only when every other request is yet to come or has     *)
(* been answered and its process is gone.                                  *)
(***************************************************************************)
Finished(r) ==
    \/ pc[r] = "idle"
    \/ pc[r] = "done" /\ proc[r] \in {"none", "closed"}

ReceiveAlone(r, withFile) ==
    /\ \A o \in Req \ {r} : Finished(o)
    /\ Receive(r, withFile)

NextSequential ==
    \E r \in Req :
        \/ \E withFile \in BOOLEAN : ReceiveAlone(r, withFile)
        \/ RequestStep(r)
        \/ ProcessStep(r)

SpecSequential == Init /\ [][NextSequential]_vars



(***************************************************************************)
(* The extractor on its own: any text of up to MaxLines of the pieces      *)
(* below is given to extractModelMetrics once.                             *)
(***************************************************************************)
MaxLines == 4

MetricsPieces ==
    { <<"=== Final Summary ===", NL, "Target:", SP, "Ph", NL>>,
      <<"Target:", SP, "EC">>,
      <<"Best model:", SP, "Random Forest", SP, "Regressor", NL>>,
      <<"R2:", SP, "0", ".", "8", "7", "0", NL>>,
      <<"RMSE:", SP, "0", ".", "4", "2", "0", NL>>,
      <<"RMSE:", SP, "0", NL>>,
      <<NL, "Generating predictions", NL>>,
      <<"Selected", SP, "4", "2", "9", "4", "9", "6", "7", "2", "9", "6", SP,
        "features for", SP, "Ph", NL>> }

RECURSIVE TextsOf(_)
TextsOf(n) ==
    IF n = 0 THEN {<<>>}
    ELSE TextsOf(n - 1) \cup {t \o piece : t \in TextsOf(n - 1), piece \in MetricsPieces}

MetricsInputs == TextsOf(MaxLines)

routeVars ==
    <<pc, hasFile, dirs, fs, proc, procIn, procWrote, outputData, errorData,
      promise, modelOutput, predictionsData, response, trace, stdoutLog, stderrLog,
      closeInfo, resultRead>>

InitMetrics ==
    /\ InitRoute
    /\ mInput \in MetricsInputs
    /\ mResult = NotRun
    /\ rendered = NotRendered
    /\ IdleCsv
    /\ IdleUpload
    /\ IdlePredict
    /\ IdlePage
    /\ IdleViews

\* const metrics = extractModelMetrics(output)
RunExtractor ==
    /\ ~mResult.ran
    /\ mResult' = [ran |-> TRUE] @@ extractModelMetrics(mInput)
    /\ UNCHANGED <<mInput, rendered, routeVars, csvVars, upVars, predictVars, pageVars, viewVars>>

NextMetrics == RunExtractor

SpecMetrics == InitMetrics /\ [][NextMetrics]_vars

(***************************************************************************)
(* The ModelMetrics component, which renders what the extractor returned.  *)
(***************************************************************************)
\* a summary row whose cells test for the key before they format it
SummaryRowGuarded(metrics, target) == [threw |-> FALSE]

\* one row of the Model Performance Summary table: bestModels[target] is
\* rendered as it is (undefined renders as nothing), and toFixed(3) is called
\* on r2Scores[target], rmseScores[target] and mseScores[target]: a TypeError
\* when the value is undefined
SummaryRow(metrics, target) ==
    [threw |-> \/ ~Has(metrics.r2Scores, target)
               \/ ~Has(metrics.rmseScores, target)
               \/ ~Has(metrics.mseScores, target)]

\* ModelMetrics({ metrics }): targets = Object.keys(metrics.r2Scores); the
\* charts and the feature cards take undefined values, the summary rows do not
ModelMetricsRender(metrics) ==
    LET targets == DOMAIN metrics.r2Scores
        failing == {t \in targets : SummaryRow(metrics, t).threw}
    IN  [done |-> TRUE, threw |-> failing # {}, failing |-> failing]

(***************************************************************************)
(* The Final Summary section on its own: any text of up to MaxSummaryLines *)
(* of the lines below is given to extractModelMetrics, and the result to   *)
(* ModelMetrics.                                                           *)
(***************************************************************************)
MaxSummaryLines == 4

SummaryPieces ==
    { <<"=== Final Summary ===", NL, "Target:", SP, "Ph", NL>>,
      <<"Target:", SP, "EC", NL>>,
      <<"Best model:", SP, "Random Forest", SP, "Regressor", NL>>,
      <<"R2:", SP, "0", ".", "8", "7", "0", NL>>,
      <<"R2:", SP, "0", ".", "5", NL>>,
      <<"RMSE:", SP, "0", ".", "4", "2", "0", NL>>,
      <<"RMSE:", SP, "0", NL>>,
      <<NL, "Generating predictions", NL>> }

RECURSIVE SummaryTextsOf(_)
SummaryTextsOf(n) ==
    IF n = 0 THEN {<<>>}
    ELSE SummaryTextsOf(n - 1)
            \cup {t \o piece : t \in SummaryTextsOf(n - 1), piece \in SummaryPieces}

InitSummary ==
    /\ InitRoute
    /\ mInput \in SummaryTextsOf(MaxSummaryLines)
    /\ mResult = NotRun
    /\ rendered = NotRendered
    /\ IdleCsv
    /\ IdleUpload
    /\ IdlePredict
    /\ IdlePage
    /\ IdleViews

\* <ModelMetrics metrics={soilData.metrics} />
RenderModelMetrics ==
    /\ mResult.ran
    /\ ~mResult.threw
    /\ ~rendered.done
    /\ rendered' = ModelMetricsRender(mResult)
    /\ UNCHANGED <<mInput, mResult, routeVars, csvVars, upVars, predictVars, pageVars, viewVars>>

NextSummary == RunExtractor \/ RenderModelMetrics

SpecSummary == InitSummary /\ [][NextSummary]_vars

(***************************************************************************)
(* The feature lines on their own: any text of up to MaxFeatureLines of    *)
(* the pieces below is given to extractModelMetrics.                       *)
(***************************************************************************)
MaxFeatureLines == 3

FeaturePieces ==
    { <<"Selected", SP, "3", SP, "features for", SP, "Ph", NL>>,
      <<"Selected", SP, "1", SP, "features for", SP, "Ph", NL>>,
      <<"Selected", SP, "0", SP, "features for", SP, "EC", NL>>,
      <<"Selected", SP, "2", SP, "features for", SP, "EC">>,
      <<"Selected", SP, "4", "2", "9", "4", "9", "6", "7", "2", "9", "6", SP,
        "features for", SP, "Ph", NL>>,
      <<"INFO", SP>> }

RECURSIVE FeatureTextsOf(_)
FeatureTextsOf(n) ==
    IF n = 0 THEN {<<>>}
    ELSE FeatureTextsOf(n - 1)
            \cup {t \o piece : t \in FeatureTextsOf(n - 1), piece \in FeaturePieces}

InitFeatures ==
    /\ InitRoute
    /\ mInput \in FeatureTextsOf(MaxFeatureLines)
    /\ mResult = NotRun
    /\ rendered = NotRendered
    /\ IdleCsv
    /\ IdleUpload
    /\ IdlePredict
    /\ IdlePage
    /\ IdleViews

NextFeatures == RunExtractor

SpecFeatures == InitFeatures /\ [][NextFeatures]_vars

(***************************************************************************)
(* The CSV parser on its own, and exportToCsv of SoilSampleTable           *)
(* (src/components/soil-sample-table.tsx) applied to the rows it returns.  *)
(***************************************************************************)
\* the decimal digits of a natural number
RECURSIVE IntDigits(_)
IntDigits(n) ==
    IF n < 10 THEN <<DigitTokens[n + 1]>>
    ELSE IntDigits(n \div 10) \o <<DigitTokens[(n % 10) + 1]>>

RECURSIVE Pow10(_)
Pow10(e) == IF e = 0 THEN 1 ELSE 10 * Pow10(e - 1)

RECURSIVE ZeroPad(_, _)
ZeroPad(ds, n) == IF Len(ds) >= n THEN ds ELSE ZeroPad(<<"0">> \o ds, n)

\* String(x) of a number: -0 is "0", no exponent in the range used here
NumberToString(x) ==
    LET a == IF x.m < 0 THEN 0 - x.m ELSE x.m
        ip == IntDigits(a \div Pow10(x.e))
        fp == ZeroPad(IntDigits(a % Pow10(x.e)), x.e)
    IN  IF x.nan THEN <<"NaN">>
        ELSE (IF x.m < 0 THEN <<"-">> ELSE <<>>) \o ip
             \o (IF x.e = 0 THEN <<>> ELSE <<".">> \o fp)

\* how Array.prototype.join writes an element: undefined is the empty string
ValueToString(v) ==
    IF v.t = "number" THEN NumberToString(v.n)
    ELSE IF v.t = "string" THEN v.s
    ELSE <<>>

\* parts.join(sep)
RECURSIVE Join(_, _)
Join(parts, sep) ==
    IF parts = <<>> THEN <<>>
    ELSE IF Len(parts) = 1 THEN parts[1]
    ELSE parts[1] \o sep \o Join(Tail(parts), sep)

\* an integer-like property name: a canonical array index, at most 2^32 - 2
IsIndexKey(k) ==
    /\ k # <<>>
    /\ \A i \in 1..Len(k) : IsDigit(k[i])
    /\ StripZeros(k) = k
    /\ DigitsLeq(k, MaxArrayLength)
    /\ k # MaxArrayLength

RECURSIVE SortIndexKeys(_)
SortIndexKeys(ks) ==
    IF ks = {} THEN <<>>
    ELSE LET least == CHOOSE k \in ks : \A o \in ks : DigitsLeq(k, o)
         IN  <<least>> \o SortIndexKeys(ks \ {least})

\* the names of a sequence in the order of their first occurrence
RECURSIVE FirstOccurrences(_, _)
FirstOccurrences(names, seen) ==
    IF names = <<>> THEN <<>>
    ELSE IF Head(names) \in seen THEN FirstOccurrences(Tail(names), seen)
    ELSE <<Head(names)>> \o FirstOccurrences(Tail(names), seen \cup {Head(names)})

SelectSeq2(names, keep) ==
    LET F[i \in 0..Len(names)] ==
            IF i = 0 THEN <<>>
            ELSE IF names[i] \in keep THEN Append(F[i - 1], names[i]) ELSE F[i - 1]
    IN  F[Len(names)]

\* Object.keys of an object whose properties were set in the order of names:
\* the integer-like names in ascending order, then the others in the order
\* they were first set
ObjectKeys(names) ==
    LET all == {names[i] : i \in 1..Len(names)}
        idx == {k \in all : IsIndexKey(k)}
    IN  SortIndexKeys(idx) \o SelectSeq2(FirstOccurrences(names, {}), all \ idx)

\* Object.keys of a row that parseCSV built from the text
RowKeys(csvData) ==
    ObjectKeys(Split(Split(Trim(csvData), <<NL>>)[1], <<COMMA>>))

\* const columns = samples.length > 0
\*    ? Object.keys(samples[0]).filter((col) => col !== "Moisture_Value") : []
Columns(samples, keys) ==
    IF Len(samples) > 0 THEN SelectSeq2(keys, {k \in {keys[i] : i \in 1..Len(keys)} :
                                                  k # <<"Moisture_Value">>})
    ELSE <<>>

\* exportToCsv: [headers, ...rows].join("\n") with headers = columns.join(",")
\* and one row per sample, columns.map((col) => sample[col]).join(",")
exportToCsv(samples, columns) ==
    LET headers == Join(columns, <<COMMA>>)
        rows == [i \in 1..Len(samples) |->
                    Join([j \in 1..Len(columns) |-> ValueToString(samples[i][columns[j]])],
                         <<COMMA>>)]
    IN  Join(<<headers>> \o rows, <<NL>>)

\* the most data lines of a CSV text
MaxCsvLines == 2

\* header lines: two columns, an integer-like column name, a repeated column
\* name, and no header at all
CsvHeaders ==
    { <<"ID", COMMA, "Moist">>,
      <<"Moist", COMMA, "4", "1", "0", COMMA, "ID">>,
      <<"ID", COMMA, "ID">>,
      <<>> }

\* data lines: numbers in and out of canonical form, an empty and a blank
\* cell, an empty line, a short and a long line, blanks around a word
CsvLines ==
    { <<"A1", COMMA, "3", ".", "5">>,
      <<"A2", COMMA, "3", ".", "5", "0">>,
      <<"A3", COMMA>>,
      <<"A4", COMMA, SP>>,
      <<>>,
      <<"A6">>,
      <<"-", "2", COMMA, "dry", COMMA, "9">>,
      <<"7", COMMA, SP, "dry", SP>> }

\* texts of white space only
BlankTexts == { <<SP>>, <<NL>>, <<SP, NL, SP>> }

RECURSIVE CsvTextsOf(_)
CsvTextsOf(n) ==
    IF n = 0 THEN CsvHeaders
    ELSE CsvTextsOf(n - 1)
            \cup {t \o <<NL>> \o line : t \in CsvTextsOf(n - 1), line \in CsvLines}

InitCsv ==
    /\ InitRoute
    /\ IdleMetrics
    /\ csvInput \in CsvTextsOf(MaxCsvLines) \cup BlankTexts
    /\ csvParsed = NotParsed
    /\ csvExported = NotExported
    /\ IdleUpload
    /\ IdlePredict
    /\ IdlePage
    /\ IdleViews

\* const rows = parseCSV(csvData)
ParseCsv ==
    /\ ~csvParsed.ran
    /\ csvParsed' =
          IF parseCSVThrows(csvInput)
          THEN [ran |-> TRUE, threw |-> TRUE, rows |-> <<>>, keys |-> <<>>]
          ELSE [ran |-> TRUE, threw |-> FALSE, rows |-> parseCSV(csvInput),
                keys |-> RowKeys(csvInput)]
    /\ UNCHANGED <<csvInput, csvExported, routeVars, metricsVars, upVars, predictVars, pageVars, viewVars>>

\* exportToCsv() of a table whose samples are the parsed rows, no search term
ExportCsv ==
    /\ csvParsed.ran
    /\ ~csvExported.done
    /\ csvExported' =
          [done |-> TRUE,
           text |-> exportToCsv(csvParsed.rows, Columns(csvParsed.rows, csvParsed.keys))]
    /\ UNCHANGED <<csvInput, csvParsed, routeVars, metricsVars, upVars, predictVars, pageVars, viewVars>>

NextCsv == ParseCsv \/ ExportCsv

SpecCsv == InitCsv /\ [][NextCsv]_vars

(***************************************************************************)
(* uploadSoilData and simulateModelAnalysis (the client library in         *)
(* route.ts, lines 192 on).  Math.random() gives the numbers of a stream   *)
(* chosen for the call, one after another.                                 *)
(***************************************************************************)
\* x + y and x - y on exact decimals
DecPlus(x, y) ==
    LET e == IF x.e > y.e THEN x.e ELSE y.e
    IN  Norm(x.m * Pow10(e - x.e) + y.m * Pow10(e - y.e), e)

DecMinus(x, y) == DecPlus(x, [y EXCEPT !.m = 0 - y.m])

Dec(m, e) == Norm(m, e)

\* Math.floor of a decimal that is not negative
DecFloor(x) == x.m \div Pow10(x.e)

\* x <= y
DecLeq(x, y) == DecMinus(y, x).m >= 0

\* the k-th number of a stream
RandAt(stream, k) == stream[((k - 1) % Len(stream)) + 1]

\* ToBoolean of a cell value: undefined, "", 0 and NaN are falsy
TruthyValue(v) ==
    CASE v.t = "number" -> Truthy(v.n)
      [] v.t = "string" -> v.s # <<>>
      [] OTHER -> FALSE

\* row.name: undefined when the row has no such property
Get(row, name) == IF Has(row, name) THEN row[name] ELSE Undefined

\* typeof v === "string" && v.includes(ch)
StringIncludes(v, ch) == v.t = "string" /\ IndexFrom(v.s, <<ch>>, 1) # 0

\* row.Soil_ID || row.Records || `Sample_${Math.floor(Math.random() * 1000)}`,
\* cut at the first "-" when it is a string; k random numbers were drawn before
SoilIdOf(row, stream, k) ==
    LET given == IF TruthyValue(Get(row, <<"Soil_ID">>)) THEN Get(row, <<"Soil_ID">>)
                 ELSE Get(row, <<"Records">>)
        drawn == ~TruthyValue(given)
        n == DecFloor(Times(RandAt(stream, k + 1), Dec(1000, 0)))
        soilId == IF drawn THEN StringValue(<<"Sample", "_">> \o IntDigits(n)) ELSE given
    IN  [id |-> IF StringIncludes(soilId, "-")
                THEN StringValue(Split(soilId.s, <<"-">>)[1])
                ELSE soilId,
         k |-> IF drawn THEN k + 1 ELSE k]

\* const soilIds = data.map(...)
RECURSIVE SoilIds(_, _, _, _)
SoilIds(data, stream, k, acc) ==
    IF Len(acc) = Len(data) THEN [ids |-> acc, k |-> k]
    ELSE LET one == SoilIdOf(data[Len(acc) + 1], stream, k)
         IN  SoilIds(data, stream, one.k, Append(acc, one.id))

Levels == <<"0ml", "25ml", "50ml">>

\* the moisture level of the record at index (from 0); parts.length > 1 holds
\* whenever the id includes "_"
MoistureLevelOf(row, soilId, index) ==
    IF StringIncludes(soilId, "_") THEN StringValue(Split(soilId.s, <<"_">>)[2])
    ELSE IF TruthyValue(Get(row, <<"Moisture_Level">>)) THEN Get(row, <<"Moisture_Level">>)
    ELSE StringValue(<<Levels[(index % Len(Levels)) + 1]>>)

TargetParams ==
    << <<"Ph">>, <<"Moist">>, <<"EC (u/10 gram)">>, <<"Nitro (mg/10 g)">>,
       <<"Posh Nitro (mg/10 g)">>, <<"Pota Nitro (mg/10 g)">> >>

\* the switch of simulateModelAnalysis: base + (Math.random() * span - span / 2)
SimulatedValue(param, moistureLevel, r) ==
    LET base == CASE param = <<"Ph">> -> Dec(65, 1)
                  [] param = <<"Moist">> ->
                        IF moistureLevel = StringValue(<<"0ml">>) THEN Dec(15, 0)
                        ELSE IF moistureLevel = StringValue(<<"25ml">>) THEN Dec(35, 0)
                        ELSE Dec(55, 0)
                  [] param = <<"EC (u/10 gram)">> -> Dec(800, 0)
                  [] param = <<"Nitro (mg/10 g)">> -> Dec(18, 0)
                  [] param = <<"Posh Nitro (mg/10 g)">> -> Dec(12, 0)
                  [] OTHER -> Dec(25, 0)
        span == CASE param = <<"Ph">> -> Dec(15, 1)
                  [] param = <<"Moist">> -> Dec(10, 0)
                  [] param = <<"EC (u/10 gram)">> -> Dec(400, 0)
                  [] param = <<"Nitro (mg/10 g)">> -> Dec(10, 0)
                  [] param = <<"Posh Nitro (mg/10 g)">> -> Dec(8, 0)
                  [] OTHER -> Dec(15, 0)
    IN  DecPlus(base, DecMinus(Times(r, span), Times(span, Dec(5, 1))))

\* targetParams.forEach: the row's own value when it is not undefined, a
\* simulated one otherwise
RECURSIVE FillTargets(_, _, _, _, _, _)
FillTargets(row, prediction, moistureLevel, stream, k, p) ==
    IF p > Len(TargetParams) THEN [record |-> prediction, k |-> k]
    ELSE LET param == TargetParams[p]
         IN  IF Get(row, param).t # "undefined"
             THEN FillTargets(row, Put(prediction, param, row[param]), moistureLevel,
                              stream, k, p + 1)
             ELSE FillTargets(row,
                              Put(prediction, param,
                                  NumberValue(SimulatedValue(param, moistureLevel,
                                                             RandAt(stream, k + 1)))),
                              moistureLevel, stream, k + 1, p + 1)

\* one pass of const predictions = data.map((row, index) => ...)
PredictionOf(row, soilId, index, stream, k) ==
    LET moistureLevel == MoistureLevelOf(row, soilId, index)
        start == Put(Put(EmptyMap, <<"Soil_ID">>, soilId), <<"Moisture_Level">>, moistureLevel)
    IN  FillTargets(row, start, moistureLevel, stream, k, 1)

RECURSIVE Predictions(_, _, _, _, _)
Predictions(data, soilIds, stream, k, acc) ==
    IF Len(acc) = Len(data) THEN [predictions |-> acc, k |-> k]
    ELSE LET i == Len(acc) + 1
             one == PredictionOf(data[i], soilIds[i], i - 1, stream, k)
         IN  Predictions(data, soilIds, stream, one.k, Append(acc, one.record))

\* simulateModelAnalysis(data): the predictions and how many random numbers
\* were drawn (the metrics and the log text it adds are fixed by the code)
simulateModelAnalysis(data, stream) ==
    LET ids == SoilIds(data, stream, 0, <<>>)
    IN  Predictions(data, ids.ids, stream, ids.k, <<>>)

\* the random numbers Math.random() can give
RandValues == {Dec(0, 0), Dec(5, 1), Dec(999, 3)}

\* the streams: two numbers, repeated
RandStreams == {<<a, b>> : a \in RandValues, b \in RandValues}

\* the most data lines of an uploaded file
MaxUploadLines == 2

UploadHeaders ==
    { <<"Soil_ID", COMMA, "Ph">>,
      <<"Records", COMMA, "Moisture_Level">>,
      <<"Soil_ID", COMMA, "Moisture_Level", COMMA, "Ph", COMMA, "Moist", COMMA,
        "EC (u/10 gram)", COMMA, "Nitro (mg/10 g)", COMMA, "Posh Nitro (mg/10 g)",
        COMMA, "Pota Nitro (mg/10 g)">>,
      <<"Name">> }

UploadLines ==
    { <<"S1", "_", "25ml", COMMA, "6", ".", "8">>,
      <<"S2", "-", "A", "_", "x", COMMA, "50ml">>,
      <<COMMA, "25ml">>,
      <<"S4">>,
      <<"S7", COMMA, "0">>,
      <<"S5", COMMA, "dry", COMMA, "1", COMMA, "2", COMMA, "3", COMMA, "4", COMMA, "5",
        COMMA, "6">> }

RECURSIVE UploadTextsOf(_)
UploadTextsOf(n) ==
    IF n = 0 THEN UploadHeaders
    ELSE UploadTextsOf(n - 1)
            \cup {t \o <<NL>> \o line : t \in UploadTextsOf(n - 1), line \in UploadLines}

InitUpload ==
    /\ InitRoute
    /\ IdleMetrics
    /\ IdleCsv
    /\ IdlePredict
    /\ IdlePage
    /\ IdleViews
    /\ upFile \in UploadTextsOf(MaxUploadLines)
    /\ upResult = NotUploaded

\* uploadSoilData(file): file.text(), parseCSV, simulateModelAnalysis; when
\* the file cannot be read, the catch throws the one Error of uploadSoilData
UploadSoilData ==
    /\ ~upResult.ran
    /\ \E readable \in BOOLEAN : \E stream \in RandStreams :
          upResult' =
             IF readable
             THEN LET data == parseCSV(upFile)
                      sim == simulateModelAnalysis(data, stream)
                  IN  [ran |-> TRUE, failed |-> FALSE, data |-> data,
                       predictions |-> sim.predictions,
                       draws |-> [i \in 1..sim.k |-> RandAt(stream, i)]]
             ELSE [NotUploaded EXCEPT !.ran = TRUE, !.failed = TRUE]
    /\ UNCHANGED <<upFile, routeVars, metricsVars, csvVars, predictVars, pageVars, viewVars>>

NextUpload == UploadSoilData

SpecUpload == InitUpload /\ [][NextUpload]_vars

(***************************************************************************)
(* predictSingleSample and simulateSinglePrediction.  The outputs are       *)
(* computed as exact fractions [n, d] with d > 0, in lowest terms: the      *)
(* rounding of floating point arithmetic is not modelled.                  *)
(***************************************************************************)
RECURSIVE Gcd(_, _)
Gcd(a, b) == IF b = 0 THEN a ELSE Gcd(b, a % b)

Rat(n, d) ==
    LET g == Gcd(IF n < 0 THEN 0 - n ELSE n, d)
    IN  [n |-> n \div g, d |-> d \div g]

\* a decimal as a fraction
RatOf(x) == Rat(x.m, Pow10(x.e))

RatPlus(x, y) ==
    LET g == Gcd(x.d, y.d)
    IN  Rat(x.n * (y.d \div g) + y.n * (x.d \div g), (x.d \div g) * y.d)

RatMinus(x, y) ==
    LET g == Gcd(x.d, y.d)
    IN  Rat(x.n * (y.d \div g) - y.n * (x.d \div g), (x.d \div g) * y.d)

RatTimes(x, y) ==
    LET a == Rat(x.n, y.d)
        b == Rat(y.n, x.d)
    IN  Rat(a.n * b.n, a.d * b.d)

\* x <= y
RatLeq(x, y) ==
    LET g == Gcd(x.d, y.d)
    IN  x.n * (y.d \div g) <= y.n * (x.d \div g)

\* the wavelengths of the spectral form
Wavelengths ==
    << <<"4", "1", "0">>, <<"4", "3", "5">>, <<"4", "6", "0">>, <<"4", "8", "5">>,
       <<"5", "1", "0">>, <<"5", "3", "5">>, <<"5", "6", "0">>, <<"5", "8", "5">>,
       <<"6", "1", "0">>, <<"6", "4", "5">>, <<"6", "8", "0">>, <<"7", "0", "5">>,
       <<"7", "3", "0">>, <<"7", "6", "0">>, <<"8", "1", "0">>, <<"8", "6", "0">>,
       <<"9", "0", "0">>, <<"9", "4", "0">> >>

\* a quality score that counts only the entries whose value is a number
qualityScoreByValues(data) ==
    LET keys == ObjectKeys(data.names)
        wavelengths == SelectSeq2(keys, {k \in DOMAIN data.at :
                                            ~ToNumber(k).nan /\ ~data.at[k].nan})
    IN  Rat(Len(wavelengths), 18)

\* const wavelengths = Object.keys(spectralData).filter((key) => !isNaN(Number(key)))
\* const qualityScore = wavelengths.length / 18
qualityScoreOf(data) ==
    LET keys == ObjectKeys(data.names)
        wavelengths == SelectSeq2(keys, {k \in DOMAIN data.at : ~ToNumber(k).nan})
    IN  Rat(Len(wavelengths), 18)

\* base + qualityScore * coefficient + (Math.random() * span - half)
SingleValue(base, qualityScore, coefficient, r, span, half) ==
    RatPlus(RatPlus(RatOf(base), RatTimes(qualityScore, RatOf(coefficient))),
            RatMinus(RatTimes(RatOf(r), RatOf(span)), RatOf(half)))

\* a number held as a fraction
RatValue(q) == [t |-> "number", q |-> q]

\* the six lines of the object literal: the base, the coefficient of the
\* quality score, the span and the half subtracted, in the order of evaluation
SingleParams ==
    << <<Dec(65, 1), Dec(5, 1), Dec(5, 1), Dec(25, 2)>>,
       <<Dec(35, 0), Dec(10, 0), Dec(10, 0), Dec(5, 0)>>,
       <<Dec(800, 0), Dec(200, 0), Dec(200, 0), Dec(100, 0)>>,
       <<Dec(18, 0), Dec(5, 0), Dec(5, 0), Dec(25, 1)>>,
       <<Dec(12, 0), Dec(4, 0), Dec(4, 0), Dec(2, 0)>>,
       <<Dec(25, 0), Dec(75, 1), Dec(75, 1), Dec(375, 2)>> >>

\* simulateSinglePrediction(spectralData): Soil_ID and the six targets, each
\* with the next random number
simulateSinglePrediction(data, stream) ==
    LET qualityScore == qualityScoreOf(data)
        Value(p) == SingleValue(SingleParams[p][1], qualityScore, SingleParams[p][2],
                                RandAt(stream, p), SingleParams[p][3], SingleParams[p][4])
    IN  [k \in {<<"Soil_ID">>} \cup {TargetParams[p] : p \in 1..Len(TargetParams)} |->
            IF k = <<"Soil_ID">> THEN StringValue(<<"Sample", "_", "1">>)
            ELSE RatValue(Value(CHOOSE p \in 1..Len(TargetParams) : TargetParams[p] = k))]

\* the reflectance values the form can give: Number.parseFloat of a field
ReflectanceValues == {Dec(1, 1), Dec(9, 1), NaN}

\* the most wavelengths of a mapping that is not the whole form
MaxKeys == 3

\* the mapping with the wavelengths of the indexes in S, set in ascending order
MappingOf(S, at) ==
    [names |-> SelectSeq2(Wavelengths, {Wavelengths[i] : i \in S}), at |-> at]

\* the mappings: up to MaxKeys of the first wavelengths with any values, and
\* the whole form with one value
SpectralMappings ==
    LET some == UNION {{<<S, at>> : at \in [{Wavelengths[i] : i \in S} -> ReflectanceValues]} :
                          S \in SUBSET (1..MaxKeys)}
        whole == {<<1..Len(Wavelengths),
                    [k \in {Wavelengths[i] : i \in 1..Len(Wavelengths)} |-> v]>> :
                     v \in ReflectanceValues}
    IN  {MappingOf(pair[1], pair[2]) : pair \in some \cup whole}

InitPredict ==
    /\ InitRoute
    /\ IdleMetrics
    /\ IdleCsv
    /\ IdleUpload
    /\ IdlePage
    /\ IdleViews
    /\ spectralData \in SpectralMappings
    /\ predicted = NotPredicted

\* predictSingleSample(spectralData): simulateSinglePrediction, which does not
\* throw on a mapping
PredictSingleSample ==
    /\ ~predicted.ran
    /\ \E stream \in RandStreams :
          predicted' = [ran |-> TRUE,
                         qualityScore |-> qualityScoreOf(spectralData),
                         draws |-> [i \in 1..Len(TargetParams) |-> RandAt(stream, i)],
                         record |-> simulateSinglePrediction(spectralData, stream)]
    /\ UNCHANGED <<spectralData, routeVars, metricsVars, csvVars, upVars, pageVars, viewVars>>

NextPredict == PredictSingleSample

SpecPredict == InitPredict /\ [][NextPredict]_vars

(***************************************************************************)
(* The metrics and the log text that simulateModelAnalysis adds to its     *)
(* predictions.                                                            *)
(***************************************************************************)
\* an object literal with one property for each target, in their order
TargetMap(values) ==
    [k \in {TargetParams[p] : p \in 1..Len(TargetParams)} |->
        values[CHOOSE p \in 1..Len(TargetParams) : TargetParams[p] = k]]

\* const metrics = { r2Scores: ..., rmseScores: ..., mseScores: ..., ... }
SimulatedMetrics ==
    [r2Scores |-> TargetMap(<<Dec(87, 2), Dec(92, 2), Dec(85, 2), Dec(79, 2), Dec(81, 2),
                              Dec(83, 2)>>),
     rmseScores |-> TargetMap(<<Dec(42, 2), Dec(321, 2), Dec(56, 2), Dec(234, 2),
                                Dec(187, 2), Dec(212, 2)>>),
     mseScores |-> TargetMap(<<Dec(18, 2), Dec(103, 1), Dec(31, 2), Dec(548, 2), Dec(35, 1),
                               Dec(449, 2)>>),
     bestModels |-> TargetMap(<< <<"Random Forest">>, <<"Gradient Boosting">>,
                                 <<"Random Forest">>, <<"Gradient Boosting">>,
                                 <<"Random Forest">>, <<"SVR">> >>),
     bestFeatures |->
        TargetMap(<< << <<"7", "6", "0">>, <<"8", "1", "0">>, <<"PCA_1">>, <<"5", "3", "5">>,
                        <<"d680">> >>,
                     << <<"NDI">>, <<"SIR">>, <<"PCA_2">>, <<"d730">>, <<"d810">> >>,
                     << <<"5", "1", "0">>, <<"5", "3", "5">>, <<"d560">>, <<"PCA_1">>,
                        <<"VIS_avg">> >>,
                     << <<"NIR_avg">>, <<"8", "6", "0">>, <<"9", "0", "0">>, <<"d810">>,
                        <<"d860">> >>,
                     << <<"PCA_3">>, <<"d645">>, <<"d680">>, <<"7", "3", "0">>,
                        <<"7", "6", "0">> >>,
                     << <<"PCA_2">>, <<"d535">>, <<"d560">>, <<"6", "1", "0">>,
                        <<"6", "4", "5">> >> >>)]

\* x.toFixed(digits) of a decimal, digits > 0: rounded to that many places
\* (the decimals formatted here are no ties), zeros added
ToFixed(x, digits) ==
    LET a == IF x.m < 0 THEN 0 - x.m ELSE x.m
        scaled == IF x.e <= digits THEN a * Pow10(digits - x.e)
                  ELSE (a + (Pow10(x.e - digits) \div 2)) \div Pow10(x.e - digits)
    IN  (IF x.m < 0 THEN <<"-">> ELSE <<>>)
        \o IntDigits(scaled \div Pow10(digits)) \o <<".">>
        \o ZeroPad(IntDigits(scaled % Pow10(digits)), digits)

\* the lines that targets.forEach adds for one target before the summary
ProcessingLines(metrics, target) ==
    LET r2 == metrics.r2Scores[target]
        Fold(n, x) == <<NL, "Fold", SP, n, SP, "completed", SP, "-", SP, "R2:", SP>>
                      \o ToFixed(x, 3)
    IN  <<NL, NL, "=== Processing target:", SP>> \o target \o <<SP, "===">>
        \o <<NL, "Selecting features...">>
        \o <<NL, "Selected", SP>> \o IntDigits(Len(metrics.bestFeatures[target]))
        \o <<SP, "features for", SP>> \o target
        \o <<NL, "Starting model training...">>
        \o <<NL, NL, "Training", SP>> \o metrics.bestModels[target] \o <<"...">>
        \o Fold("1", r2)
        \o Fold("2", DecMinus(r2, Dec(2, 2)))
        \o Fold("3", DecPlus(r2, Dec(1, 2)))
        \o Fold("4", DecMinus(r2, Dec(1, 2)))
        \o Fold("5", DecPlus(r2, Dec(2, 2)))
        \o <<NL, NL, "Model Performance for", SP>> \o target \o <<":">>
        \o <<NL, "R2:", SP>> \o ToFixed(r2, 3)
        \o <<NL, "RMSE:", SP>> \o ToFixed(metrics.rmseScores[target], 3)
        \o <<NL, "MAE:", SP>> \o ToFixed(Times(metrics.rmseScores[target], Dec(8, 1)), 3)

\* the lines that targets.forEach adds for one target in the summary
SummaryLines(metrics, target) ==
    <<NL, NL, "Target:", SP>> \o target
    \o <<NL, "Best model:", SP>> \o metrics.bestModels[target]
    \o <<NL, "R2:", SP>> \o ToFixed(metrics.r2Scores[target], 3)
    \o <<NL, "RMSE:", SP>> \o ToFixed(metrics.rmseScores[target], 3)
    \o <<NL, "MAE:", SP>> \o ToFixed(Times(metrics.rmseScores[target], Dec(8, 1)), 3)
    \o <<NL, "Number of features used:", SP>>
    \o IntDigits(Len(metrics.bestFeatures[target]))

\* generateModelOutputText(metrics, predictions): the text depends on the
\* metrics only; targets = Object.keys(metrics.r2Scores)
generateModelOutputText(metrics, targets) ==
    LET Each(Lines(_, _)) ==
            LET F[i \in 0..Len(targets)] ==
                    IF i = 0 THEN <<>> ELSE F[i - 1] \o Lines(metrics, targets[i])
            IN  F[Len(targets)]
    IN  <<"Data loaded successfully", NL, NL>>
        \o <<"Available columns:", SP, "Soil_ID", COMMA, SP, "Moisture_Level", COMMA, SP>>
        \o Join(targets, <<COMMA, SP>>)
        \o <<NL, NL, "Predicting targets:", SP>> \o Join(targets, <<COMMA, SP>>)
        \o Each(ProcessingLines)
        \o <<NL, NL, "=== Final Summary ===">>
        \o Each(SummaryLines)
        \o <<NL, NL, "Generating predictions", SP, "for all samples...">>
        \o <<NL, "Success! Predictions saved to soil_analysis_output/soil_predictions.csv">>

\* what simulateModelAnalysis returns: { predictions, metrics, modelOutput }
AnalysisResult(data, stream) ==
    [predictions |-> simulateModelAnalysis(data, stream).predictions,
     metrics |-> SimulatedMetrics,
     modelOutput |-> generateModelOutputText(SimulatedMetrics, TargetParams)]

(***************************************************************************)
(* The dashboard page Home.  A handler runs to its await in one step and   *)
(* its continuation in another; the buttons that the page renders disabled *)
(* or in the tab that is not shown cannot be clicked.                      *)
(***************************************************************************)
\* the message uploadSoilData throws
UploadError ==
    <<"Failed to analyze soil data. Please check your CSV format and try again.">>

\* the files the user can select
PageFiles ==
    { <<"Soil_ID", COMMA, "Ph", NL, "S1", COMMA, "6", ".", "5">>,
      <<"Records", NL, "A", "-", "1", NL, "B", "_", "25ml">> }

\* the mappings the spectral form can submit
PageMappings ==
    { MappingOf({1}, [k \in {Wavelengths[1]} |-> Dec(1, 1)]),
      MappingOf(1..Len(Wavelengths),
                [k \in {Wavelengths[i] : i \in 1..Len(Wavelengths)} |-> Dec(9, 1)]) }

\* the random numbers drawn while the page waits
PageStreams == {<<Dec(0, 0), Dec(5, 1)>>, <<Dec(999, 3), Dec(0, 0)>>}

InitPage ==
    /\ InitRoute
    /\ IdleMetrics
    /\ IdleCsv
    /\ IdleUpload
    /\ IdlePredict
    /\ IdleViews
    /\ home = HomeInitial
    /\ pending = NothingPending
    /\ pageLog = [step |-> "none", before |-> Shown(HomeInitial)]

PageFrame == UNCHANGED <<routeVars, metricsVars, csvVars, upVars, predictVars, viewVars>>

\* onValueChange={setActiveTab}
SetActiveTab ==
    /\ \E tab \in {"upload", "input"} :
          /\ tab # home.activeTab
          /\ home' = [home EXCEPT !.activeTab = tab]
    /\ pageLog' = [pageLog EXCEPT !.step = "setActiveTab"]
    /\ UNCHANGED pending
    /\ PageFrame

\* handleFileChange: a file was chosen
HandleFileChange ==
    /\ home.activeTab = "upload"
    /\ \E text \in PageFiles :
          home' = [home EXCEPT !.file = Some(text), !.error = Null]
    /\ pageLog' = [pageLog EXCEPT !.step = "handleFileChange"]
    /\ UNCHANGED pending
    /\ PageFrame

\* an upload button that is disabled only without a file
UploadDisabledWithoutFile(h) == h.file.null

\* <Button onClick={handleFileUpload} disabled={!file || isLoading}>
UploadDisabled(h) == h.file.null \/ h.isLoading

\* handleFileUpload up to its await, from a click on the button
HandleFileUpload ==
    /\ home.activeTab = "upload"
    /\ ~UploadDisabled(home)
    /\ ~home.file.null
    /\ home' = [home EXCEPT !.isLoading = TRUE, !.error = Null]
    /\ pending' = Append(pending, UploadCall(home.file.value))
    /\ pageLog' = [step |-> "handleFileUpload", before |-> Shown(home)]
    /\ PageFrame

\* a catch of handleFileUpload that also drops the analysis shown
UploadFailedClearsData(h, message) ==
    [h EXCEPT !.error = Some(message), !.isLoading = FALSE,
              !.soilData = Null, !.analysisComplete = FALSE]

\* the try of handleFileUpload after the await, and its finally
UploadDone(h, result) ==
    [h EXCEPT !.soilData = Some(result),
              !.modelOutput = IF result.modelOutput # <<>> THEN result.modelOutput ELSE <<>>,
              !.analysisComplete = TRUE,
              !.isLoading = FALSE]

\* the catch of handleFileUpload, and its finally
UploadFailed(h, message) ==
    [h EXCEPT !.error = Some(message), !.isLoading = FALSE]

\* uploadSoilData resolves: file.text(), parseCSV, simulateModelAnalysis
UploadResolves ==
    /\ \E i \in 1..Len(pending) :
          /\ pending[i].call = "uploadSoilData"
          /\ \E stream \in PageStreams :
                home' = UploadDone(home, AnalysisResult(parseCSV(pending[i].file), stream))
          /\ pending' = Settle(pending, i)
    /\ pageLog' = [pageLog EXCEPT !.step = "uploadResolved"]
    /\ PageFrame

\* uploadSoilData rejects: file.text() failed, the catch threw UploadError
UploadRejects ==
    /\ \E i \in 1..Len(pending) :
          /\ pending[i].call = "uploadSoilData"
          /\ pending' = Settle(pending, i)
    /\ home' = UploadFailed(home, UploadError)
    /\ pageLog' = [pageLog EXCEPT !.step = "uploadRejected"]
    /\ PageFrame

\* handleSpectralDataSubmit up to its await; the form's button is
\* disabled={isLoading || Object.keys(formData).length === 0}
HandleSpectralDataSubmit ==
    /\ home.activeTab = "input"
    /\ ~home.isLoading
    /\ \E data \in PageMappings : pending' = Append(pending, PredictCall(data))
    /\ home' = [home EXCEPT !.isLoading = TRUE, !.error = Null]
    /\ pageLog' = [pageLog EXCEPT !.step = "handleSpectralDataSubmit"]
    /\ PageFrame

\* predictSingleSample resolves (it does not reject on a mapping): the try of
\* handleSpectralDataSubmit after the await, and its finally
PredictResolves ==
    /\ \E i \in 1..Len(pending) :
          /\ pending[i].call = "predictSingleSample"
          /\ \E stream \in PageStreams :
                home' = [home EXCEPT
                            !.singlePrediction =
                                Some(simulateSinglePrediction(pending[i].data, stream)),
                            !.isLoading = FALSE]
          /\ pending' = Settle(pending, i)
    /\ pageLog' = [pageLog EXCEPT !.step = "predictResolved"]
    /\ PageFrame

\* onClick={() => setShowModelOutput(!showModelOutput)}
ToggleModelOutput ==
    /\ home.activeTab = "upload"
    /\ home.analysisComplete
    /\ ~home.soilData.null
    /\ home' = [home EXCEPT !.showModelOutput = ~@]
    /\ pageLog' = [pageLog EXCEPT !.step = "toggleModelOutput"]
    /\ UNCHANGED pending
    /\ PageFrame

NextPage ==
    \/ SetActiveTab
    \/ HandleFileChange
    \/ HandleFileUpload
    \/ UploadResolves
    \/ UploadRejects
    \/ HandleSpectralDataSubmit
    \/ PredictResolves
    \/ ToggleModelOutput

SpecPage == InitPage /\ [][NextPage]_vars

(***************************************************************************)
(* SoilSampleTable: the search, the pages and the samples prop.  The ids   *)
(* of the samples are written one letter or digit to a lexeme.             *)
(***************************************************************************)
itemsPerPage == 10

\* String.prototype.toLowerCase on the letters used here
ToLowerCase(s) ==
    [i \in 1..Len(s) |->
        CASE s[i] = "A" -> "a"
          [] s[i] = "B" -> "b"
          [] OTHER -> s[i]]

\* s.includes(p)
Includes(s, p) == \E i \in 1..(Len(s) + 1) : MatchAt(s, i, p)

\* samples.filter((sample) =>
\*    sample.Soil_ID.toLowerCase().includes(searchTerm.toLowerCase()))
filteredSamples(list, term) ==
    LET F[i \in 0..Len(list)] ==
            IF i = 0 THEN <<>>
            ELSE IF Includes(ToLowerCase(list[i][<<"Soil_ID">>].s), ToLowerCase(term))
                 THEN Append(F[i - 1], list[i])
                 ELSE F[i - 1]
    IN  F[Len(list)]

\* Math.ceil(filteredSamples.length / itemsPerPage)
totalPages(list, term) ==
    (Len(filteredSamples(list, term)) + itemsPerPage - 1) \div itemsPerPage

\* filteredSamples.slice((currentPage - 1) * itemsPerPage, currentPage * itemsPerPage)
paginatedSamples(list, term, page) ==
    LET filtered == filteredSamples(list, term)
        last == IF page * itemsPerPage < Len(filtered) THEN page * itemsPerPage
                ELSE Len(filtered)
    IN  SubSeq(filtered, (page - 1) * itemsPerPage + 1, last)

\* the most samples of a list
MaxSamples == 21

\* n samples: A1, b2, A3, b4, ...
SamplesOf(n) ==
    [i \in 1..n |->
        [k \in {<<"Soil_ID">>} |->
            StringValue((IF i % 2 = 1 THEN <<"A">> ELSE <<"b">>) \o IntDigits(i))]]

SampleLists == {SamplesOf(n) : n \in 0..MaxSamples}

SearchTerms == {<<>>, <<"a">>, <<"B">>, <<"1">>, <<"z">>}

InitTable ==
    /\ InitRoute
    /\ IdleMetrics
    /\ IdleCsv
    /\ IdleUpload
    /\ IdlePredict
    /\ IdlePage
    /\ IdleCharts
    /\ IdleForm
    /\ gen = NotGenerated
    /\ gauge = NotDrawn
    /\ tableSamples \in SampleLists
    /\ searchTerm = <<>>
    /\ currentPage = 1

TableFrame ==
    UNCHANGED <<routeVars, metricsVars, csvVars, upVars, predictVars, pageVars,
                chartVars, formVars, gen, gauge>>

\* setCurrentPage((prev) => Math.min(prev + 1, totalPages))
NextPageOf(page, total) == IF page + 1 < total THEN page + 1 ELSE total

\* setCurrentPage((prev) => Math.max(prev - 1, 1))
PreviousPageOf(page) == IF page - 1 > 1 THEN page - 1 ELSE 1

\* a click on Next: the buttons are rendered when totalPages > 1, Next is
\* disabled={currentPage === totalPages}
ClickNext ==
    /\ totalPages(tableSamples, searchTerm) > 1
    /\ currentPage # totalPages(tableSamples, searchTerm)
    /\ currentPage' = NextPageOf(currentPage, totalPages(tableSamples, searchTerm))
    /\ UNCHANGED <<tableSamples, searchTerm>>
    /\ TableFrame

\* a click on Previous, disabled={currentPage === 1}
ClickPrevious ==
    /\ totalPages(tableSamples, searchTerm) > 1
    /\ currentPage # 1
    /\ currentPage' = PreviousPageOf(currentPage)
    /\ UNCHANGED <<tableSamples, searchTerm>>
    /\ TableFrame

\* onChange of the search input: setSearchTerm(e.target.value); setCurrentPage(1)
ChangeSearch ==
    /\ \E term \in SearchTerms \ {searchTerm} : searchTerm' = term
    /\ currentPage' = 1
    /\ UNCHANGED tableSamples
    /\ TableFrame

\* the parent renders the table with another samples prop: the state of
\* the mounted table is kept
ReplaceSamples ==
    /\ \E list \in SampleLists \ {tableSamples} : tableSamples' = list
    /\ UNCHANGED <<searchTerm, currentPage>>
    /\ TableFrame

NextTable == ClickNext \/ ClickPrevious \/ ChangeSearch \/ ReplaceSamples

SpecTable == InitTable /\ [][NextTable]_vars

(***************************************************************************)
(* LineChart and BarChart: the effect that owns the Chart of the canvas.   *)
(* charts[c] is every Chart the component c has constructed, in order,     *)
(* each with the number of charts of c that were not destroyed when it     *)
(* was constructed; chartRef[c] is the index chartRef.current holds, 0     *)
(* for null.                                                               *)
(***************************************************************************)
\* the most charts one component constructs
MaxCharts == 3

LiveCount(list) == Cardinality({i \in 1..Len(list) : ~list[i].destroyed})

\* an effect that leaves the chart of the ref alone
KeepCurrent(list, ref) == list

\* if (chartRef.current) { chartRef.current.destroy() }
DestroyCurrent(list, ref) ==
    IF ref = 0 THEN list ELSE [list EXCEPT ![ref].destroyed = TRUE]

\* the body of the effect, the canvas being in the document: destroy the
\* chart of the ref, then construct one when getContext("2d") gave a context
EffectBody(list, ref, ctx) ==
    LET cleared == DestroyCurrent(list, ref)
    IN  IF ctx
        THEN [charts |-> Append(cleared, [destroyed |-> FALSE,
                                          liveBefore |-> LiveCount(cleared)]),
              ref |-> Len(cleared) + 1]
        ELSE [charts |-> cleared, ref |-> ref]

\* the function the effect returns
EffectCleanup(list, ref) == DestroyCurrent(list, ref)

InitCharts ==
    /\ InitRoute
    /\ IdleMetrics
    /\ IdleCsv
    /\ IdleUpload
    /\ IdlePredict
    /\ IdlePage
    /\ IdleTable
    /\ IdleForm
    /\ gen = NotGenerated
    /\ gauge = NotDrawn
    /\ IdleCharts

ChartFrame ==
    UNCHANGED <<routeVars, metricsVars, csvVars, upVars, predictVars, pageVars,
                tableVars, formVars, gen, gauge>>

\* the component is mounted: the effect runs for the first time
MountChart(c) ==
    /\ mounted[c] = "no"
    /\ \E ctx \in BOOLEAN :
          LET after == EffectBody(charts[c], chartRef[c], ctx)
          IN  /\ charts' = [charts EXCEPT ![c] = after.charts]
              /\ chartRef' = [chartRef EXCEPT ![c] = after.ref]
    /\ mounted' = [mounted EXCEPT ![c] = "mounted"]
    /\ ChartFrame

\* a render with another data or options: the cleanup of the last run of
\* the effect, then its body
ChangeChartData(c) ==
    /\ mounted[c] = "mounted"
    /\ Len(charts[c]) < MaxCharts
    /\ \E ctx \in BOOLEAN :
          LET cleaned == EffectCleanup(charts[c], chartRef[c])
              after == EffectBody(cleaned, chartRef[c], ctx)
          IN  /\ charts' = [charts EXCEPT ![c] = after.charts]
              /\ chartRef' = [chartRef EXCEPT ![c] = after.ref]
    /\ UNCHANGED mounted
    /\ ChartFrame

\* the component is unmounted: the cleanup of the last run of the effect
UnmountChart(c) ==
    /\ mounted[c] = "mounted"
    /\ charts' = [charts EXCEPT ![c] = EffectCleanup(charts[c], chartRef[c])]
    /\ mounted' = [mounted EXCEPT ![c] = "unmounted"]
    /\ UNCHANGED chartRef
    /\ ChartFrame

NextCharts ==
    \E c \in ChartKinds : MountChart(c) \/ ChangeChartData(c) \/ UnmountChart(c)

SpecCharts == InitCharts /\ [][NextCharts]_vars

(***************************************************************************)
(* SpectralDataForm, rendered in the "input" tab of the page with          *)
(* onSubmit={handleSpectralDataSubmit} and isLoading={isLoading}.          *)
(* formData holds the text of every field that was ever changed;           *)
(* submitted holds the argument of the last call of onSubmit.              *)
(***************************************************************************)
\* the fields that are typed into: the first wavelengths
MaxFields == 2

\* the texts of a field: cleared, "0" and "0.5"
FieldTexts == {<<>>, <<"0">>, <<"0", ".", "5">>}

\* setFormData((prev) => ({ ...prev, [name]: value }))
SetField(data, name, value) ==
    [names |-> IF Has(data.at, name) THEN data.names ELSE Append(data.names, name),
     at |-> Put(data.at, name, value)]

\* for (const [key, value] of Object.entries(formData))
\*   if (value) numericData[key] = Number.parseFloat(value)
NumericData(data) ==
    LET keys == ObjectKeys(data.names)
        kept == {k \in DOMAIN data.at : data.at[k] # <<>>}
    IN  [names |-> SelectSeq2(keys, kept),
         at |-> [k \in kept |-> ParseFloat(data.at[k])]]

\* disabled={isLoading || Object.keys(formData).length === 0}
SubmitDisabled(isLoading, data) ==
    isLoading \/ Len(ObjectKeys(data.names)) = 0

InitForm ==
    /\ InitRoute
    /\ IdleMetrics
    /\ IdleCsv
    /\ IdleUpload
    /\ IdlePredict
    /\ IdleTable
    /\ IdleCharts
    /\ gen = NotGenerated
    /\ gauge = NotDrawn
    /\ home = [HomeInitial EXCEPT !.activeTab = "input"]
    /\ pending = NothingPending
    /\ pageLog = [step |-> "none", before |-> Shown(HomeInitial)]
    /\ IdleForm

\* value={formData[wavelength] || ""}
FieldText(data, name) == IF Has(data.at, name) THEN data.at[name] ELSE <<>>

\* handleChange: the onChange of a field whose text the user changed
HandleChange ==
    /\ \E i \in 1..MaxFields, value \in FieldTexts :
          /\ value # FieldText(formData, Wavelengths[i])
          /\ formData' = SetField(formData, Wavelengths[i], value)
    /\ UNCHANGED <<submitted, routeVars, metricsVars, csvVars, upVars, predictVars,
                   pageVars, tableVars, chartVars, gen, gauge>>

\* handleSubmit, by the submit button: onSubmit(numericData) is
\* handleSpectralDataSubmit of the page, up to its await
HandleSubmit ==
    /\ ~SubmitDisabled(home.isLoading, formData)
    /\ submitted' = <<NumericData(formData)>>
    /\ pending' = Append(pending, PredictCall(NumericData(formData)))
    /\ home' = [home EXCEPT !.isLoading = TRUE, !.error = Null]
    /\ pageLog' = [pageLog EXCEPT !.step = "handleSpectralDataSubmit"]
    /\ UNCHANGED <<formData, routeVars, metricsVars, csvVars, upVars, predictVars,
                   tableVars, chartVars, gen, gauge>>

NextForm == HandleChange \/ HandleSubmit \/ PredictResolves

SpecForm == InitForm /\ [][NextForm]_vars

(***************************************************************************)
(* generateModelOutputText followed by extractModelMetrics: gen holds the  *)
(* metrics record and its targets, mInput the text written from it,        *)
(* mResult what the extractor reads back.                                  *)
(***************************************************************************)
\* the keys of r2Scores, in the order Object.keys gives them
GenTargetLists ==
    { <<>>, << <<"Ph">> >>, << <<"Moist">> >>, << <<"Ph">>, <<"Moist">> >> }

\* R2 scores: two digits, more than three digits, below zero
GenR2Scores == {Dec(87, 2), Dec(12345, 4), Dec(0 - 5, 1)}

GenRmseScores == {Dec(42, 2), Dec(0, 0)}

GenModels == { <<"SVR">>, <<"RandomForest", "Regressor">> }

GenFeatures == { <<>>, << <<"NDI">>, <<"SIR">> >> }

\* the metrics records over a list of targets: five mappings of one key set
GenMetricsOf(targets) ==
    LET T == {targets[i] : i \in 1..Len(targets)}
    IN  { [r2Scores |-> r2, rmseScores |-> rmse,
           mseScores |-> [t \in T |-> Pow2(rmse[t])],
           bestModels |-> models, bestFeatures |-> features] :
             r2 \in [T -> GenR2Scores], rmse \in [T -> GenRmseScores],
             models \in [T -> GenModels], features \in [T -> GenFeatures] }

GenInputs ==
    UNION { {[done |-> FALSE, metrics |-> m, targets |-> targets] :
                m \in GenMetricsOf(targets)} \cup
            {[done |-> FALSE, metrics |-> SimulatedMetrics, targets |-> TargetParams]} :
              targets \in GenTargetLists }

InitGenerate ==
    /\ InitRoute
    /\ IdleMetrics
    /\ IdleCsv
    /\ IdleUpload
    /\ IdlePredict
    /\ IdlePage
    /\ IdleTable
    /\ IdleCharts
    /\ IdleForm
    /\ gauge = NotDrawn
    /\ gen \in GenInputs

\* const modelOutput = generateModelOutputText(metrics, predictions)
GenerateText ==
    /\ ~gen.done
    /\ gen' = [gen EXCEPT !.done = TRUE]
    /\ mInput' = generateModelOutputText(gen.metrics, gen.targets)
    /\ UNCHANGED <<mResult, rendered, routeVars, csvVars, upVars, predictVars, pageVars,
                   tableVars, chartVars, formVars, gauge>>

\* extractModelMetrics(modelOutput) of the text that was generated
ExtractGenerated ==
    /\ gen.done
    /\ ~mResult.ran
    /\ mResult' = [ran |-> TRUE] @@ extractModelMetrics(mInput)
    /\ UNCHANGED <<mInput, rendered, routeVars, csvVars, upVars, predictVars, pageVars,
                   viewVars>>

NextGenerate == GenerateText \/ ExtractGenerated

SpecGenerate == InitGenerate /\ [][NextGenerate]_vars

(***************************************************************************)
(* SoilHealthGauge, rendered by the page with the prediction that          *)
(* predictSingleSample returned; the arithmetic is exact.                  *)
(***************************************************************************)
RatMin(x, y) == IF RatLeq(x, y) THEN x ELSE y

RatMax(x, y) == IF RatLeq(x, y) THEN y ELSE x

RatAbs(x) == IF x.n < 0 THEN [n |-> 0 - x.n, d |-> x.d] ELSE x

\* the four scores added without their weights
UnweightedScore(moistureScore, phScore, nitroScore, ecScore) ==
    RatTimes(RatPlus(RatPlus(moistureScore, phScore), RatPlus(nitroScore, ecScore)),
             Rat(100, 1))

\* (moistureScore * 0.3 + phScore * 0.3 + nitroScore * 0.2 + ecScore * 0.2) * 100
WeightedScore(moistureScore, phScore, nitroScore, ecScore) ==
    RatTimes(RatPlus(RatPlus(RatTimes(moistureScore, Rat(3, 10)),
                             RatTimes(phScore, Rat(3, 10))),
                     RatPlus(RatTimes(nitroScore, Rat(2, 10)),
                             RatTimes(ecScore, Rat(2, 10)))),
             Rat(100, 1))

\* calculateHealthScore() of the gauge for the record it is given
calculateHealthScore(record) ==
    LET moisture == record[<<"Moist">>].q
        ph == record[<<"Ph">>].q
        nitro == record[<<"Nitro (mg/10 g)">>].q
        ec == record[<<"EC (u/10 gram)">>].q
        moistureScore ==
            RatMin(RatMax(RatTimes(RatMinus(moisture, Rat(10, 1)), Rat(1, 50)), Rat(0, 1)),
                   Rat(1, 1))
        phScore ==
            RatMinus(Rat(1, 1), RatTimes(RatAbs(RatMinus(ph, Rat(65, 10))), Rat(10, 35)))
        nitroScore == RatMin(RatTimes(nitro, Rat(1, 50)), Rat(1, 1))
        ecScore ==
            RatMinus(Rat(1, 1),
                     RatMin(RatMax(RatTimes(RatAbs(RatMinus(ec, Rat(800, 1))), Rat(1, 800)),
                                   Rat(0, 1)),
                            Rat(1, 1)))
    IN  WeightedScore(moistureScore, phScore, nitroScore, ecScore)

\* <SoilHealthGauge prediction={singlePrediction} />: const healthScore =
\* calculateHealthScore()
RenderGauge ==
    /\ predicted.ran
    /\ ~gauge.done
    /\ gauge' = [done |-> TRUE, healthScore |-> calculateHealthScore(predicted.record)]
    /\ UNCHANGED <<routeVars, metricsVars, csvVars, upVars, predictVars, pageVars,
                   tableVars, chartVars, formVars, gen>>

NextGauge == PredictSingleSample \/ RenderGauge

SpecGauge == InitPredict /\ [][NextGauge]_vars

(***************************************************************************)
(* Properties of the extractor                                             *)
(***************************************************************************)
\* C9: the metrics extractor never fails: whatever the text, it returns a
\* ModelMetrics record and raises no error
C9_ExtractorNeverFails == mResult.ran => ~mResult.threw

\* C10: MSE is RMSE squared: every target with a recorded RMSE (an RMSE of 0
\* included) is in mseScores with rmse * rmse, and mseScores has no other target
C10_MseIsRmseSquared ==
    (mResult.ran /\ ~mResult.threw) =>
        /\ \A t \in DOMAIN mResult.rmseScores :
              ~mResult.rmseScores[t].nan =>
                 /\ Has(mResult.mseScores, t)
                 /\ mResult.mseScores[t] = Times(mResult.rmseScores[t], mResult.rmseScores[t])
        /\ DOMAIN mResult.mseScores \subseteq DOMAIN mResult.rmseScores


\* the Final Summary section of a text: what follows the first marker, up to
\* a blank line followed by 'Generating predictions' or to the end
SectionOf(text) ==
    LET i == IndexFrom(text, <<"=== Final Summary ===">>, 1)
        rest == Drop(text, i)
        g == IndexFrom(rest, <<NL, NL, "Generating predictions">>, 1)
    IN  IF i = 0 THEN <<>> ELSE IF g = 0 THEN rest ELSE Take(rest, g - 1)

\* the target blocks of the section: each starts after a 'Target:' at the
\* beginning of a line and runs to the next one
TargetBlocks(text) == Tail(Split(SectionOf(text), <<NL, "Target:">>))

\* a block whose 'Target:' line is complete has a name
Named(block) == IndexFrom(block, <<NL>>, 1) # 0

NameOf(block) == Trim(Take(block, IndexFrom(block, <<NL>>, 1) - 1))

\* where the line 'Best model: ...', 'R2: <decimal>' or 'RMSE: <decimal>'
\* first occurs in the block, 0 if nowhere
LineAt(block, key) ==
    IF key = "Best model:" THEN IndexFrom(block, <<key, SP>>, 1)
    ELSE LET hits == {p \in 1..(Len(block) - 2) :
                         /\ block[p] = key /\ block[p + 1] = SP
                         /\ IsNumChar(block[p + 2])}
         IN  IF hits = {} THEN 0 ELSE CHOOSE p \in hits : \A q \in hits : p <= q

\* the targets of the named blocks that hold the line
TargetsWithLine(text, key) ==
    LET blocks == TargetBlocks(text)
    IN  {NameOf(blocks[i]) : i \in {k \in 1..Len(blocks) :
                                       Named(blocks[k]) /\ LineAt(blocks[k], key) # 0}}

\* C11: each of bestModels, r2Scores and rmseScores holds a target exactly
\* when the target's block of the Final Summary holds the matching line, so
\* the key sets of the mappings may differ
C11_MissingFieldTolerance ==
    (mResult.ran /\ ~mResult.threw) =>
        /\ DOMAIN mResult.bestModels = TargetsWithLine(mInput, "Best model:")
        /\ DOMAIN mResult.r2Scores = TargetsWithLine(mInput, "R2:")
        /\ DOMAIN mResult.rmseScores = TargetsWithLine(mInput, "RMSE:")

\* a block with a 'Best model:' line and no 'R2:' line: the target is in
\* bestModels and not in r2Scores
C11_Witness ==
    /\ mResult.ran /\ ~mResult.threw
    /\ mInput = <<"=== Final Summary ===", NL, "Target:", SP, "Ph", NL,
                  "Best model:", SP, "Random Forest", SP, "Regressor", NL,
                  "Target:", SP, "EC", NL,
                  "R2:", SP, "0", ".", "5", NL>>
    /\ DOMAIN mResult.bestModels = {<<"Ph">>}
    /\ DOMAIN mResult.r2Scores = {<<"EC">>}
    /\ DOMAIN mResult.rmseScores = {}

\* the value a line holds: the rest of the 'Best model:' line without the
\* word Regressor and trimmed, or the decimal after the key
BestModelAt(block, p) == Trim(ReplaceFirst(LineRun(Drop(block, p + 1)), "Regressor"))

DecimalAt(block, p) == ParseFloat(NumCharRun(Drop(block, p + 1)))

\* the block that decides a target's entry: no later block of the same
\* target holds the line too
Decides(blocks, i, key) ==
    /\ Named(blocks[i])
    /\ LineAt(blocks[i], key) # 0
    /\ \A j \in (i + 1)..Len(blocks) :
          ~(/\ Named(blocks[j])
            /\ NameOf(blocks[j]) = NameOf(blocks[i])
            /\ LineAt(blocks[j], key) # 0)

\* C12: for every target block of the Final Summary section the extractor
\* records, under the trimmed target name, the model name of the block's
\* 'Best model:' line and the decimals of its 'R2:' and 'RMSE:' lines; lines
\* outside the section give nothing to these mappings
C12_SummaryValues ==
    (mResult.ran /\ ~mResult.threw) =>
        LET blocks == TargetBlocks(mInput)
        IN  /\ \A i \in 1..Len(blocks) :
                  LET b == blocks[i]
                      t == NameOf(b)
                  IN  /\ Decides(blocks, i, "Best model:") =>
                            /\ Has(mResult.bestModels, t)
                            /\ mResult.bestModels[t] = BestModelAt(b, LineAt(b, "Best model:"))
                      /\ Decides(blocks, i, "R2:") =>
                            /\ Has(mResult.r2Scores, t)
                            /\ mResult.r2Scores[t] = DecimalAt(b, LineAt(b, "R2:"))
                      /\ Decides(blocks, i, "RMSE:") =>
                            /\ Has(mResult.rmseScores, t)
                            /\ mResult.rmseScores[t] = DecimalAt(b, LineAt(b, "RMSE:"))
            /\ \A t \in DOMAIN mResult.bestModels \cup DOMAIN mResult.r2Scores
                         \cup DOMAIN mResult.rmseScores :
                  \E i \in 1..Len(blocks) : Named(blocks[i]) /\ NameOf(blocks[i]) = t

\* the example of the specification, with an 'R2:' line before the section
C12_Witness ==
    /\ mResult.ran /\ ~mResult.threw
    /\ mInput = <<"R2:", SP, "0", ".", "5", NL,
                  "=== Final Summary ===", NL, "Target:", SP, "Ph", NL,
                  "Best model:", SP, "Random Forest", SP, "Regressor", NL,
                  "R2:", SP, "0", ".", "8", "7", "0", NL>>
    /\ mResult.bestModels = [t \in {<<"Ph">>} |-> <<"Random Forest">>]
    /\ mResult.r2Scores = [t \in {<<"Ph">>} |-> [nan |-> FALSE, m |-> 87, e |-> 2]]
    /\ mResult.rmseScores = EmptyMap

\* the lines of a text that a newline ends
CompleteLines(text) ==
    LET parts == Split(text, <<NL>>) IN Take(parts, Len(parts) - 1)

\* does 'Selected <digits> features for ' stand at position p of the line
SelectedAt(line, p) ==
    LET ds == DigitRun(Drop(line, p + 1))
    IN  /\ MatchAt(line, p, <<"Selected", SP>>)
        /\ ds # <<>>
        /\ MatchAt(line, p + 2 + Len(ds), <<SP, "features for", SP>>)

IsFeatureLine(line) == \E p \in 1..Len(line) : SelectedAt(line, p)

\* the first such place of a feature line, its count n and its target T
FeatureLine(line) ==
    LET p == CHOOSE q \in 1..Len(line) :
                 SelectedAt(line, q) /\ \A k \in 1..(q - 1) : ~SelectedAt(line, k)
        ds == DigitRun(Drop(line, p + 1))
    IN  [count |-> ds, target |-> Trim(Drop(line, p + 4 + Len(ds)))]

\* C13: for every line 'Selected n features for T' followed by a newline,
\* bestFeatures[T] is 'Feature 1', ..., 'Feature n' (the last line of T
\* wins), and bestFeatures has no other key
C13_FeaturePlaceholders ==
    mResult.ran =>
        /\ ~mResult.threw
        /\ LET lines == CompleteLines(mInput)
                fl == {k \in 1..Len(lines) : IsFeatureLine(lines[k])}
            IN  /\ DOMAIN mResult.bestFeatures = {FeatureLine(lines[k]).target : k \in fl}
                /\ \A k \in fl :
                      LET f == FeatureLine(lines[k])
                          n == DigitsValue(f.count)
                      IN  (\A j \in fl : j > k => FeatureLine(lines[j]).target # f.target)
                          => /\ Len(mResult.bestFeatures[f.target]) = n
                             /\ \A i \in 1..n :
                                   mResult.bestFeatures[f.target][i] = <<"Feature", i>>

\* the part of C13 that the code keeps: whenever the extractor returns
C13_WhenReturned == (mResult.ran /\ mResult.threw) \/ C13_FeaturePlaceholders

\* the fields of a prediction record
RecordFields ==
    {<<"Soil_ID">>, <<"Moisture_Level">>} \cup {TargetParams[p] : p \in 1..Len(TargetParams)}

Carries(record, field) == Has(record, field) /\ record[field].t # "undefined"

\* C18: every prediction record of an analysis result carries a Soil_ID, a
\* Moisture_Level and the six target fields; here for the result of POST
C18_RecordsComplete ==
    \A r \in Req :
        response[r].success =>
            \A i \in 1..Len(response[r].predictions) :
                \A field \in RecordFields : Carries(response[r].predictions[i], field)

\* the part of C18 that the code keeps, for the result of uploadSoilData: one
\* record per row in the order of the rows, each with all the fields, a
\* target of the row passed through and any other target a number
C18_SimulatedRecordsComplete ==
    (upResult.ran /\ ~upResult.failed) =>
        /\ Len(upResult.predictions) = Len(upResult.data)
        /\ \A i \in 1..Len(upResult.data) :
              LET row == upResult.data[i]
                  record == upResult.predictions[i]
              IN  /\ \A field \in RecordFields : Carries(record, field)
                  /\ \A p \in 1..Len(TargetParams) :
                        IF Carries(row, TargetParams[p])
                        THEN record[TargetParams[p]] = row[TargetParams[p]]
                        ELSE record[TargetParams[p]].t = "number"
                  /\ TruthyValue(Get(row, <<"Soil_ID">>)) =>
                        \/ record[<<"Soil_ID">>] = row[<<"Soil_ID">>]
                        \/ StringIncludes(row[<<"Soil_ID">>], "-")

\* the centre, the half range and the coefficient of each target of the
\* single-sample predictor
ClaimedRanges ==
    << <<Dec(65, 1), Dec(25, 2), Dec(5, 1)>>,
       <<Dec(35, 0), Dec(5, 0), Dec(10, 0)>>,
       <<Dec(800, 0), Dec(100, 0), Dec(200, 0)>>,
       <<Dec(18, 0), Dec(25, 1), Dec(5, 0)>>,
       <<Dec(12, 0), Dec(2, 0), Dec(4, 0)>>,
       <<Dec(25, 0), Dec(375, 2), Dec(75, 1)>> >>

\* the entries of the mapping
Provided == Cardinality(DOMAIN spectralData.at)

\* C19: the coverage ratio of the single-sample predictor is the number of
\* provided wavelength entries over 18 and each output lies within its half
\* range of baseline + ratio * coefficient (of the bare baseline for the empty
\* mapping); the output is that centre plus the random term, whatever the
\* reflectance values are
C19_CoverageAndRanges ==
    predicted.ran =>
        LET ratio == Rat(Provided, 18)
        IN  /\ predicted.qualityScore = ratio
            /\ Provided = 0 => predicted.qualityScore = Rat(0, 1)
            /\ \A p \in 1..Len(TargetParams) :
                  LET centre == RatPlus(RatOf(ClaimedRanges[p][1]),
                                        RatTimes(ratio, RatOf(ClaimedRanges[p][3])))
                      half == RatOf(ClaimedRanges[p][2])
                      random == RatMinus(RatTimes(RatOf(predicted.draws[p]),
                                                  RatTimes(half, Rat(2, 1))), half)
                      out == predicted.record[TargetParams[p]].q
                  IN  /\ RatLeq(RatMinus(centre, half), out)
                      /\ RatLeq(out, RatPlus(centre, half))
                      /\ Provided = 0 =>
                            /\ RatLeq(RatMinus(RatOf(ClaimedRanges[p][1]), half), out)
                            /\ RatLeq(out, RatPlus(RatOf(ClaimedRanges[p][1]), half))
                      /\ out = RatPlus(centre, random)

C19_Witness ==
    /\ predicted.ran
    /\ Provided \in 1..(Len(Wavelengths) - 1)
    /\ \E k \in DOMAIN spectralData.at : spectralData.at[k].nan
    /\ \E p \in 1..Len(TargetParams) : predicted.draws[p] = Dec(999, 3)

\* C20: in the dashboard page a failed upload analysis leaves soilData,
\* modelOutput and analysisComplete as they were before the upload started,
\* sets error to the one message of the failure, and isLoading is false
\* afterwards
C20_FailedUploadNoPartialState ==
    pageLog.step = "uploadRejected" =>
        /\ Shown(home) = pageLog.before
        /\ home.error = Some(UploadError)
        /\ ~home.isLoading
        /\ pending = NothingPending

C20_Witness ==
    /\ pageLog.step = "uploadRejected"
    /\ pageLog.before.analysisComplete
    /\ ~home.soilData.null
    /\ home.modelOutput # <<>>

\* C21: with the requests handled one after another, the predictions of a
\* successful response were written by the process of that request: they are
\* the predictions for its own upload, never those an earlier request left
\* in the predictions file
C21_NoStaleResult ==
    \A r \in Req :
        response[r].success =>
            /\ resultRead[r] = File(ModelPredict(UploadOf(r)))
            /\ response[r].predictions = parseCSV(ModelPredict(UploadOf(r)))

\* C22: in the dashboard page at most one analysis is in flight: one is
\* started only while isLoading is false and makes it true, isLoading stays
\* true while the analysis is awaited, and is false again when it has
\* succeeded or failed
C22_OneAnalysisInFlight ==
    /\ [](Len(pending) <= 1 /\ (home.isLoading <=> pending # <<>>))
    /\ [][/\ Len(pending') > Len(pending) => (~home.isLoading /\ home'.isLoading)
          /\ Len(pending') < Len(pending) => (home.isLoading /\ ~home'.isLoading)]_vars

\* an analysis is awaited in the tab of the other kind of analysis, after
\* an analysis of that kind was done
C22_Witness ==
    /\ Len(pending) = 1
    /\ pending[1].call = "uploadSoilData"
    /\ home.activeTab = "input"
    /\ ~home.singlePrediction.null
    /\ home.isLoading

\* C23: in SoilSampleTable the current page p satisfies
\* 1 <= p <= max(1, totalPages) after any Next, Previous, search change and
\* replacement of the samples, so the page shown is empty only when no sample
\* matches the search
C23_PageInRange ==
    LET total == totalPages(tableSamples, searchTerm)
    IN  /\ 1 <= currentPage
        /\ currentPage <= (IF total > 1 THEN total ELSE 1)
        /\ paginatedSamples(tableSamples, searchTerm, currentPage) = <<>>
              => filteredSamples(tableSamples, searchTerm) = <<>>

\* C24: in LineChart and in BarChart a Chart is constructed only when every
\* chart the component constructed before is destroyed, so a component has
\* at most one chart that is not destroyed, and none once it is unmounted
C24_OneLiveChart ==
    \A c \in ChartKinds :
        /\ LiveCount(charts[c]) <= 1
        /\ \A i \in 1..Len(charts[c]) : charts[c][i].liveBefore = 0
        /\ \A i \in 1..Len(charts[c]) :
              ~charts[c][i].destroyed => (i = Len(charts[c]) /\ chartRef[c] = i)
        /\ mounted[c] = "unmounted" => LiveCount(charts[c]) = 0

\* one chart on its third Chart, the other unmounted after its second
C24_Witness ==
    /\ mounted["line"] = "mounted"
    /\ Len(charts["line"]) = 3
    /\ LiveCount(charts["line"]) = 1
    /\ mounted["bar"] = "unmounted"
    /\ Len(charts["bar"]) = 2

\* C14: ModelMetrics reads the mappings without testing for the key: the
\* summary row of a target of r2Scores fails exactly when rmseScores or
\* mseScores does not hold the target, and the extractor returns such records
C14_MissingKeyFailure ==
    rendered.done =>
        /\ \A t \in DOMAIN mResult.r2Scores :
              t \in rendered.failing <=>
                 (t \notin DOMAIN mResult.rmseScores \/ t \notin DOMAIN mResult.mseScores)
        /\ rendered.threw <=> rendered.failing # {}

\* a summary block with an 'R2:' line and no 'RMSE:' line, rendered
C14_Witness ==
    /\ rendered.done
    /\ rendered.threw
    /\ mInput = <<"=== Final Summary ===", NL, "Target:", SP, "Ph", NL,
                  "R2:", SP, "0", ".", "8", "7", "0", NL>>
    /\ <<"Ph">> \in DOMAIN mResult.r2Scores
    /\ <<"Ph">> \notin DOMAIN mResult.rmseScores
    /\ rendered.failing = {<<"Ph">>}


(***************************************************************************)
(* Properties of the CSV parser                                            *)
(***************************************************************************)
\* the lines of a CSV text (white space around the text is not part of it),
\* the first of them the header
CsvLinesOf(text) == Split(Trim(text), <<NL>>)

CellsOf(line) == Split(line, <<COMMA>>)

\* digits with at most one dot and at least one digit
IsUnsignedLiteral(t) ==
    /\ t # <<>>
    /\ \A i \in 1..Len(t) : IsNumChar(t[i])
    /\ Cardinality({i \in 1..Len(t) : t[i] = "."}) <= 1
    /\ \E i \in 1..Len(t) : IsDigit(t[i])

\* a numeric literal, with or without a sign
IsNumericLiteral(t) ==
    \/ IsUnsignedLiteral(t)
    \/ t # <<>> /\ Head(t) \in {"-", "+"} /\ IsUnsignedLiteral(Tail(t))

\* the cells a row keeps: cell j of data line i, for a column j whose name no
\* later column repeats
KeptCells(text) ==
    LET lines == CsvLinesOf(text)
        headers == CellsOf(lines[1])
    IN  {<<i, j>> \in (1..(Len(lines) - 1)) \X (1..Len(headers)) :
            /\ j <= Len(CellsOf(lines[i + 1]))
            /\ \A k \in (j + 1)..Len(headers) : headers[k] # headers[j]}

CellText(text, ij) == CellsOf(CsvLinesOf(text)[ij[1] + 1])[ij[2]]

CellValue(text, ij) ==
    csvParsed.rows[ij[1]][CellsOf(CsvLinesOf(text)[1])[ij[2]]]

\* the cell is a number exactly when its trimmed text is a numeric literal,
\* and is its own text otherwise
CoercedRight(text, ij) ==
    IF IsNumericLiteral(Trim(CellText(text, ij)))
    THEN CellValue(text, ij).t = "number"
    ELSE CellValue(text, ij) = StringValue(CellText(text, ij))

\* C15: a cell is a number if and only if its trimmed text fully matches a
\* numeric literal; every other cell, an empty or blank one included, is kept
\* verbatim as a string
C15_NumericCoercion ==
    csvParsed.ran => \A ij \in KeptCells(csvInput) : CoercedRight(csvInput, ij)

\* the part of C15 that the code keeps: the cells that are not blank
C15_WhenNotBlank ==
    csvParsed.ran =>
        \A ij \in KeptCells(csvInput) :
            Trim(CellText(csvInput, ij)) # <<>> => CoercedRight(csvInput, ij)

\* the value stored for a cell is the cell: its text, or the number it reads as
StoresCell(v, cell) ==
    \/ v.t = "string" /\ v.s = cell
    \/ v.t = "number" /\ v.n = ToNumber(cell)

\* C16: a text with a header line and n data lines gives n rows, the i-th
\* row holding under the j-th header name the j-th cell of the i-th data line
C16_RowOrder ==
    csvParsed.ran =>
        LET lines == CsvLinesOf(csvInput)
        IN  /\ Len(csvParsed.rows) = Len(lines) - 1
            /\ \A ij \in KeptCells(csvInput) :
                  StoresCell(CellValue(csvInput, ij), CellText(csvInput, ij))

\* two data lines, the second with more cells than the header has columns
C16_Witness ==
    /\ csvParsed.ran
    /\ csvInput = <<"ID", COMMA, "Moist", NL, "A1", COMMA, "3", ".", "5", NL,
                    "-", "2", COMMA, "dry", COMMA, "9">>
    /\ Len(csvParsed.rows) = 2
    /\ csvParsed.rows[1][<<"ID">>] = StringValue(<<"A1">>)
    /\ csvParsed.rows[1][<<"Moist">>] = NumberValue([nan |-> FALSE, m |-> 35, e |-> 1])
    /\ csvParsed.rows[2][<<"ID">>] = NumberValue([nan |-> FALSE, m |-> 0 - 2, e |-> 0])
    /\ csvParsed.rows[2][<<"Moist">>] = StringValue(<<"dry">>)

\* a text with no white space around it, a header of distinct names that are
\* not integer-like, at least one data line, and as many cells in every line
\* as the header has names
WellFormedCsv(text) ==
    LET lines == CsvLinesOf(text)
        headers == CellsOf(lines[1])
    IN  /\ Trim(text) = text
        /\ Len(lines) > 1
        /\ \A j \in 1..Len(headers) :
              /\ Trim(headers[j]) # <<>>
              /\ ~IsIndexKey(headers[j])
              /\ \A k \in 1..Len(headers) : headers[k] = headers[j] => k = j
        /\ \A i \in 2..Len(lines) : Len(CellsOf(lines[i])) = Len(headers)

\* C17: parsing a text whose cells hold no commas or quotes and writing the
\* rows back as exportToCsv does gives the text again (stated here for the
\* well-formed texts only)
C17_RoundTrip ==
    (csvExported.done /\ WellFormedCsv(csvInput)) => csvExported.text = csvInput


(***************************************************************************)
(* Properties of the upload route                                          *)
(***************************************************************************)
Occurs(tr, ev) == \E i \in 1..Len(tr) : tr[i] = ev

Count(tr, ev) == Cardinality({i \in 1..Len(tr) : tr[i] = ev})

\* every ev2 of the trace has an ev1 before it
Before(tr, ev1, ev2) ==
    \A j \in 1..Len(tr) : tr[j] = ev2 => \E i \in 1..(j - 1) : tr[i] = ev1

Contains(s, p) == \E i \in 1..(Len(s) + 1) : MatchAt(s, i, p)

RECURSIVE Flatten(_)
Flatten(chunks) ==
    IF chunks = <<>> THEN <<>> ELSE Head(chunks) \o Flatten(Tail(chunks))

\* the process of r ran (it was not a failed spawn) and closed with a
\* nonzero exit code
ClosedNonzero(r) ==
    /\ closeInfo[r].fired
    /\ closeInfo[r].code # 0
    /\ ~Occurs(trace[r], "error")

\* a text without a data line: empty, of white space only, or one line
NoDataLine(text) ==
    \/ Trim(text) = <<>>
    \/ IndexFrom(Trim(text), <<NL>>, 1) = 0

\* C25: parseCSV is total: for the empty text, a text of white space only and
\* a text of a header line only it returns no rows, and it raises no error
\* for these or any other text
C25_TotalOnDegenerateInput ==
    csvParsed.ran =>
        /\ ~csvParsed.threw
        /\ NoDataLine(csvInput) => csvParsed.rows = <<>>

\* parseCSV has returned for a text of white space only
C25_Witness ==
    /\ csvParsed.ran
    /\ csvInput = <<SP, NL, SP>>
    /\ ~csvParsed.threw
    /\ csvParsed.rows = <<>>

\* C26: the form never calls onSubmit with an empty mapping: a submission
\* happens only while at least one field holds a text, and the mapping
\* submitted holds exactly the fields that hold a text
C26_SubmitsFilledFields ==
    [][Len(pending') > Len(pending) =>
          LET filled == {k \in DOMAIN formData.at : formData.at[k] # <<>>}
          IN  /\ filled # {}
              /\ submitted'[1].names # <<>>
              /\ DOMAIN submitted'[1].at = filled]_vars

\* x rounded to three decimals, half away from zero
RoundTo3(x) ==
    IF x.e <= 3 THEN x
    ELSE LET a == IF x.m < 0 THEN 0 - x.m ELSE x.m
             r == (a + (Pow10(x.e - 3) \div 2)) \div Pow10(x.e - 3)
         IN  Norm(IF x.m < 0 THEN 0 - r ELSE r, 3)

\* C27: for every metrics record whose five mappings have one target set,
\* extractModelMetrics(generateModelOutputText(metrics, predictions)) has the
\* same target set and the same bestModels, its r2Scores and rmseScores are
\* the original ones rounded to three decimals, and its bestFeatures lists
\* have the original lengths
C27_GenerateExtractRoundTrip ==
    (gen.done /\ mResult.ran) =>
        LET T == DOMAIN gen.metrics.r2Scores
        IN  /\ ~mResult.threw
            /\ DOMAIN mResult.r2Scores = T
            /\ DOMAIN mResult.rmseScores = T
            /\ DOMAIN mResult.bestModels = T
            /\ DOMAIN mResult.bestFeatures = T
            /\ \A t \in T :
                  /\ mResult.bestModels[t] = gen.metrics.bestModels[t]
                  /\ mResult.r2Scores[t] = RoundTo3(gen.metrics.r2Scores[t])
                  /\ mResult.rmseScores[t] = RoundTo3(gen.metrics.rmseScores[t])
                  /\ Len(mResult.bestFeatures[t]) = Len(gen.metrics.bestFeatures[t])

\* the part of C27 that the code keeps: the record that simulateModelAnalysis
\* passes to generateModelOutputText is read back
C27_SimulatedMetricsReadBack ==
    gen.metrics = SimulatedMetrics => C27_GenerateExtractRoundTrip

\* the text between the first and the second "_" of s, to the end of s when
\* there is no second one
SecondPart(s) ==
    LET rest == Drop(s, IndexFrom(s, <<"_">>, 1))
        j == IndexFrom(rest, <<"_">>, 1)
    IN  IF j = 0 THEN rest ELSE Take(rest, j - 1)

\* a row has a Moisture_Level of its own: a number, or a text that is not empty
HasMoistureLevel(row) ==
    \/ Get(row, <<"Moisture_Level">>).t = "number"
    \/ Get(row, <<"Moisture_Level">>).t = "string" /\ Get(row, <<"Moisture_Level">>).s # <<>>

\* the precedence of C28 for the record at position i of the predictions,
\* index i - 1 of the code
MoistureByPrecedence(row, record, i) ==
    LET soilId == record[<<"Soil_ID">>]
        level == record[<<"Moisture_Level">>]
    IN  IF soilId.t = "string" /\ IndexFrom(soilId.s, <<"_">>, 1) # 0
        THEN level = StringValue(SecondPart(soilId.s))
        ELSE IF HasMoistureLevel(row)
        THEN level = Get(row, <<"Moisture_Level">>)
        ELSE level = StringValue(<<Levels[((i - 1) % 3) + 1]>>)

\* C28: in simulateModelAnalysis the Moisture_Level of the record at index i
\* is the part between the first and the second "_" of the record's Soil_ID
\* when that is a string with a "_", otherwise the row's own Moisture_Level
\* when it is not empty, otherwise the tag at i mod 3 of 0ml, 25ml, 50ml
C28_MoisturePrecedence ==
    (upResult.ran /\ ~upResult.failed) =>
        \A i \in 1..Len(upResult.predictions) :
            MoistureByPrecedence(upResult.data[i], upResult.predictions[i], i)

\* the part of C28 that the code keeps: the rows whose Moisture_Level is not
\* the number 0
C28_WhenLevelNotZero ==
    (upResult.ran /\ ~upResult.failed) =>
        \A i \in 1..Len(upResult.predictions) :
            Get(upResult.data[i], <<"Moisture_Level">>) # NumberValue(Dec(0, 0))
                => MoistureByPrecedence(upResult.data[i], upResult.predictions[i], i)

\* C29: for every prediction the single-sample predictor can return, with 0
\* to 18 wavelengths provided and any random draws, the health score of the
\* gauge is in the domain [0, 100] of its scale, so the needle is never
\* placed by clamping
C29_HealthScoreInDomain ==
    gauge.done =>
        /\ RatLeq(Rat(0, 1), gauge.healthScore)
        /\ RatLeq(gauge.healthScore, Rat(100, 1))

\* the gauge of a prediction for all 18 wavelengths with the largest draws
C29_Witness ==
    /\ gauge.done
    /\ predicted.qualityScore = Rat(1, 1)
    /\ \A i \in 1..Len(predicted.draws) : predicted.draws[i] = Dec(999, 3)
    /\ RatLeq(Rat(50, 1), gauge.healthScore)

\* C1: when the process closes with a nonzero exit code, the response of POST
\* carries the exit code and the captured stderr text verbatim
C1_ProcessFailureReported ==
    \A r \in Req :
        (ClosedNonzero(r) /\ response[r].sent) =>
            /\ Contains(response[r].error, <<CodeText(closeInfo[r].code)>>)
            /\ Contains(response[r].error, closeInfo[r].stderr)

\* C2: exit code zero and an unreadable predictions file give an error
\* response of their own, unlike that of any other failure, which holds the
\* whole captured stdout as modelOutput
C2_ResultMissingKeepsStdout ==
    \A r \in Req :
        Occurs(trace[r], "readFail") =>
            /\ response[r].sent
            /\ ~response[r].success
            /\ response[r].error = ReadError
            /\ response[r].hasModelOutput
            /\ response[r].modelOutput = Flatten(stdoutLog[r])
            /\ \A o \in Req :
                  (response[o].sent /\ ~response[o].success
                     /\ ~Occurs(trace[o], "readFail"))
                  => response[o].error # response[r].error

C2_Witness ==
    \E r \in Req :
        /\ Occurs(trace[r], "readFail")
        /\ closeInfo[r].fired /\ closeInfo[r].code = 0
        /\ Len(stdoutLog[r]) = 2
        /\ response[r].sent

\* C3: no mutual exclusion over the fixed paths: no step of a request up to
\* its read of the predictions file ever waits for another request, whatever
\* that request is doing
C3_NoMutualExclusion ==
    \A r \in Req :
        pc[r] \in {"ensureUploadDir", "ensureOutputDir", "formData", "writeFile",
                   "runModel", "readFile"}
        => ENABLED FileStep(r)

\* A's successful response holds predictions computed from B's upload while
\* B has no process yet: B's upload replaced A's before A's process read it
C3_Witness ==
    \E a \in Req : \E b \in Req \ {a} :
        /\ response[a].success
        /\ pc[b] = "runModel"
        /\ ~Occurs(trace[b], "spawn")
        /\ response[a].predictions = parseCSV(ModelPredict(UploadOf(b)))
        /\ response[a].predictions # parseCSV(ModelPredict(UploadOf(a)))

\* C4: within a request: the directories before the upload is written, the
\* upload written before the process is started, the predictions file read
\* only after a close with code zero, the extractor only after the read
C4_StepOrder ==
    \A r \in Req :
        /\ Before(trace[r], "ensureUploadDir", "write")
        /\ Before(trace[r], "ensureOutputDir", "write")
        /\ Occurs(trace[r], "write") => (dirs.upload /\ dirs.output)
        /\ Before(trace[r], "write", "spawn")
        /\ Before(trace[r], "spawn", "close0")
        /\ Before(trace[r], "close0", "read")
        /\ Before(trace[r], "close0", "readFail")
        /\ Before(trace[r], "read", "parse")
        /\ Before(trace[r], "parse", "extract")

C4_Witness ==
    \E r \in Req :
        /\ response[r].success
        /\ trace[r] = <<"ensureUploadDir", "ensureOutputDir", "write", "spawn",
                        "close0", "read", "parse", "extract", "respond">>

\* C5: the process is started once for a request with a file, and never
\* again, whatever the outcome
C5_StartedOnce ==
    \A r \in Req :
        /\ Count(trace[r], "spawn") <= 1
        /\ (hasFile[r] /\ pc[r] \in {"awaitModel", "readFile", "extract", "done"})
              => Count(trace[r], "spawn") = 1

C5_Witness ==
    \E r \in Req : \E o \in Req \ {r} :
        /\ response[r].sent /\ promise[r].state = "rejected"
        /\ Occurs(trace[o], "readFail")
        /\ Count(trace[r], "spawn") = 1 /\ Count(trace[o], "spawn") = 1

Settled(tr) == Occurs(tr, "close0") \/ Occurs(tr, "closeN") \/ Occurs(tr, "error")

\* C6: a request with a file responds only after its process closed or failed
\* to start, at most once, and while neither has happened it cannot go on;
\* once it has happened the request is never held up
C6_OneResponseAfterSettle ==
    \A r \in Req :
        /\ Count(trace[r], "respond") = (IF response[r].sent THEN 1 ELSE 0)
        /\ response[r].sent <=> pc[r] = "done"
        /\ hasFile[r] =>
              \A j \in 1..Len(trace[r]) :
                 trace[r][j] = "respond" =>
                    \E i \in 1..(j - 1) : trace[r][i] \in {"close0", "closeN", "error"}
        /\ (pc[r] = "awaitModel" /\ ~Settled(trace[r])) => ~ENABLED RequestStep(r)
        /\ (pc[r] = "awaitModel" /\ Settled(trace[r])) => ENABLED RequestStep(r)

\* both 'error' and 'close' fired for one process, and one response was sent
C6_Witness ==
    \E r \in Req :
        /\ Occurs(trace[r], "error") /\ Occurs(trace[r], "closeN")
        /\ response[r].sent
        /\ Count(trace[r], "respond") = 1

\* C7: a successful response holds the stdout chunks joined in arrival order
\* and nothing of stderr, the extractor's metrics of that text, and the
\* parsed content of the predictions file
C7_SuccessContent ==
    \A r \in Req :
        response[r].success =>
            /\ response[r].modelOutput = Flatten(stdoutLog[r])
            /\ \A chunk \in StderrChunks : ~Contains(response[r].modelOutput, chunk)
            /\ response[r].metrics = extractModelMetrics(Flatten(stdoutLog[r]))
            /\ resultRead[r].exists
            /\ response[r].predictions = parseCSV(resultRead[r].data)

C7_Witness ==
    \E r \in Req :
        /\ response[r].success
        /\ Len(stdoutLog[r]) = 2
        /\ stdoutLog[r][1] # stdoutLog[r][2]
        /\ DOMAIN response[r].metrics.rmseScores # {}
        /\ Len(response[r].predictions) = 1

\* C8: a request without a file is answered "No file provided" with status
\* 400, writes no upload and starts no process
C8_NoFileRejected ==
    \A r \in Req :
        (~hasFile[r] /\ pc[r] \notin {"idle", "ensureUploadDir", "ensureOutputDir",
                                      "formData"}) =>
            /\ pc[r] = "done"
            /\ response[r] = ErrorResponse(NoFileError, 400)
            /\ ~Occurs(trace[r], "write")
            /\ ~Occurs(trace[r], "spawn")
            /\ proc[r] = "none"

C8_Witness ==
    \E r \in Req : \E o \in Req \ {r} :
        /\ ~hasFile[r]
        /\ response[r].sent
        /\ response[r].status = 400
        /\ fs.upload = File(UploadOf(o))


====
